--------------------------- MODULE DeliveryProofs ---------------------------
(***************************************************************************)
(* Type correctness of Delivery, that no message is lost, that Delivery    *)
(* implements AtLeastOnceQueue and that what was delivered is pending, for *)
(* every number of messages, workers and servers and every value of the    *)
(* other constants.                                                        *)
(***************************************************************************)
EXTENDS Delivery, FiniteSetTheorems, SequenceTheorems, TLAPS

-----------------------------------------------------------------------------
(* The entry in hand *)

(***************************************************************************)
(* A non-empty set of ids has a least one: the first entry of a batch.     *)
(***************************************************************************)
LEMMA LeastElement ==
    ASSUME NEW S \in SUBSET Nat, S # {}
    PROVE  \E i \in S : \A j \in S : i <= j
<1> DEFINE Below == {0 .. i : i \in S}
<1>1. Below \subseteq FiniteSubsetsOf(Nat) /\ Below # {}
  <2>1. \A i \in S : 0 .. i \in SUBSET Nat /\ IsFiniteSet(0 .. i)
    BY FS_Interval
  <2> QED BY <2>1 DEF FiniteSubsetsOf
<1>2. PICK T \in Below : \A U \in Below : <<U, T>> \notin StrictSubsetOrdering(Nat)
  BY <1>1, FS_StrictSubsetOrderingWellFounded, WFMin
<1>3. PICK i \in S : T = 0 .. i
  BY <1>2
<1>4. ASSUME NEW j \in S, j < i  PROVE FALSE
  <2>1. 0 .. j \subseteq 0 .. i /\ 0 .. j # 0 .. i
    <3>1. i \notin 0 .. j /\ i \in 0 .. i
      BY <1>4
    <3> QED BY <1>4, <3>1
  <2>2. <<0 .. j, 0 .. i>> \in (SUBSET Nat) \X (SUBSET Nat)
    OBVIOUS
  <2>3. <<0 .. j, 0 .. i>> \in StrictSubsetOrdering(Nat)
    BY <2>1, <2>2 DEF StrictSubsetOrdering
  <2> QED BY <1>2, <1>3, <2>3
<1> QED BY <1>4

(***************************************************************************)
(* The entry a worker has in hand is one of its batch (foreach over the    *)
(* entries XREADGROUP returned).                                           *)
(***************************************************************************)
LEMMA CurrentInBatch ==
    ASSUME TypeOK, NEW w \in Workers, batch[w] # {}
    PROVE  /\ Current(w) \in batch[w]
           /\ Current(w) \in 1 .. lastDelivered
           /\ Current(w) \in 1 .. Len(log)
           /\ Message(w) \in Msgs
<1>1. batch[w] \in SUBSET (1 .. lastDelivered) /\ lastDelivered \in 0 .. Len(log) /\ log \in Seq(Msgs)
  BY DEF TypeOK, ConsumerTypeOK, StoreTypeOK
<1>2. batch[w] \in SUBSET Nat
  BY <1>1
<1>3. Current(w) \in batch[w]
  BY <1>2, LeastElement DEF Current
<1>4. Current(w) \in 1 .. lastDelivered /\ Current(w) \in 1 .. Len(log)
  BY <1>1, <1>3
<1>5. log[Current(w)] \in Msgs
  BY <1>1, <1>4, ElementOfSeq
<1> QED BY <1>3, <1>4, <1>5 DEF Message

(***************************************************************************)
(* The entry a timeout service has in hand is one it has claimed.          *)
(***************************************************************************)
LEMMA EntryInClaimed ==
    ASSUME TypeOK, NEW s \in Servers, claimed[s] # {}
    PROVE  /\ Entry(s) \in claimed[s]
           /\ Entry(s) \in 1 .. lastDelivered
           /\ Entry(s) \in 1 .. Len(log)
           /\ log[Entry(s)] \in Msgs
<1>1. claimed[s] \in SUBSET (1 .. lastDelivered) /\ lastDelivered \in 0 .. Len(log) /\ log \in Seq(Msgs)
  BY DEF TypeOK, TimeoutTypeOK, StoreTypeOK
<1>2. claimed[s] \in SUBSET Nat
  BY <1>1
<1>3. Entry(s) \in claimed[s]
  BY <1>2, LeastElement DEF Entry
<1>4. Entry(s) \in 1 .. lastDelivered /\ Entry(s) \in 1 .. Len(log)
  BY <1>1, <1>3
<1> QED BY <1>1, <1>3, <1>4, ElementOfSeq

-----------------------------------------------------------------------------
(* What the Redis commands do *)

\* The types of the stream and of the metadata, which StoreTypeOK joins.
StreamOK ==
    /\ log \in Seq(Msgs) /\ live \subseteq 1 .. Len(log)
    /\ lastDelivered \in 0 .. Len(log)
    /\ pel \subseteq 1 .. lastDelivered /\ idle \subseteq pel

MetaOK ==
    /\ hash \in [Msgs -> Hash] /\ index \in [Status -> SUBSET Msgs]
    /\ published \subseteq Msgs /\ settled \subseteq Msgs

(***************************************************************************)
(* XADD appends one entry with the next id and changes no other.           *)
(***************************************************************************)
LEMMA XAddFacts ==
    ASSUME StreamOK, NEW m \in Msgs, XAdd(m)
    PROVE  /\ StreamOK'
           /\ Len(log') = Len(log) + 1 /\ lastDelivered' = lastDelivered
           /\ \A i \in 1 .. Len(log) : log'[i] = log[i]
           /\ log'[Len(log) + 1] = m
           /\ live' = live \union {Len(log) + 1}
           /\ Len(log) \in Nat
<1>1. log' = Append(log, m) /\ log \in Seq(Msgs)
  BY DEF XAdd, StreamOK
<1>2. /\ log' \in Seq(Msgs) /\ Len(log') = Len(log) + 1 /\ Len(log) \in Nat
      /\ \A i \in 1 .. Len(log) : log'[i] = log[i]
      /\ log'[Len(log) + 1] = m
  BY <1>1, AppendProperties, LenProperties
<1>3. live' = live \union {Len(log) + 1} /\ lastDelivered' = lastDelivered /\ pel' = pel /\ idle' = idle
  BY DEF XAdd
<1>4. live' \subseteq 1 .. Len(log')
  <2>1. live \subseteq 1 .. Len(log)
    BY DEF StreamOK
  <2>2. 1 .. Len(log') = (1 .. Len(log)) \union {Len(log) + 1}
    BY <1>2
  <2> QED BY <1>3, <2>1, <2>2
<1>5. lastDelivered' \in 0 .. Len(log')
  BY <1>2, <1>3 DEF StreamOK
<1>6. pel' \subseteq 1 .. lastDelivered' /\ idle' \subseteq pel'
  BY <1>3 DEF StreamOK
<1>7. StreamOK'
  BY <1>2, <1>4, <1>5, <1>6 DEF StreamOK
<1> QED BY <1>2, <1>3, <1>7

(***************************************************************************)
(* XACK and XDEL only take ids away.                                       *)
(***************************************************************************)
LEMMA XAckDelFacts ==
    ASSUME StreamOK, NEW ids, XAckDel(ids)
    PROVE  /\ StreamOK'
           /\ log' = log /\ lastDelivered' = lastDelivered
           /\ live' = live \ ids
BY DEF StreamOK, XAckDel

LEMMA ReindexType ==
    ASSUME index \in [Status -> SUBSET Msgs], NEW ms \in SUBSET Msgs,
           NEW from \in SUBSET Status, NEW to \in Status, Reindex(ms, from, to)
    PROVE  index' \in [Status -> SUBSET Msgs]
BY DEF Reindex

LEMMA SetStatusType ==
    ASSUME hash \in [Msgs -> Hash], NEW ms \in SUBSET Msgs, NEW s \in Status, SetStatus(ms, s)
    PROVE  hash' \in [Msgs -> Hash]
BY DEF SetStatus, Hash

(***************************************************************************)
(* XREADGROUP moves the last-delivered-id forward, over live entries.      *)
(***************************************************************************)
LEMMA DeliverFacts ==
    ASSUME StreamOK, Deliver
    PROVE  /\ StreamOK'
           /\ log' = log /\ live' = live
           /\ lastDelivered <= lastDelivered'
           /\ NextBatch(Prefetch) \subseteq 1 .. lastDelivered'
           /\ NextBatch(Prefetch) # {}
<1>1. PICK last \in NextBatch(Prefetch) :
         /\ \A i \in NextBatch(Prefetch) : i <= last
         /\ lastDelivered' = last
  BY DEF Deliver
<1>2. \A i \in NextBatch(Prefetch) : i \in 1 .. Len(log) /\ i > lastDelivered
  BY DEF NextBatch, Undelivered, StreamOK
<1>3. log' = log /\ live' = live /\ idle' = idle /\ pel' = pel \union NextBatch(Prefetch)
  BY DEF Deliver
<1>4. Len(log) \in Nat /\ lastDelivered \in 0 .. Len(log)
  BY LenProperties DEF StreamOK
<1>5. lastDelivered' \in 0 .. Len(log) /\ lastDelivered <= lastDelivered'
  BY <1>1, <1>2, <1>4
<1>6. NextBatch(Prefetch) \subseteq 1 .. lastDelivered'
  BY <1>1, <1>2, <1>4
<1>7. pel' \subseteq 1 .. lastDelivered'
  <2>1. pel \subseteq 1 .. lastDelivered /\ 1 .. lastDelivered \subseteq 1 .. lastDelivered'
    BY <1>4, <1>5 DEF StreamOK
  <2> QED BY <1>3, <1>6, <2>1
<1>8. StreamOK'
  BY <1>3, <1>5, <1>7 DEF StreamOK
<1> QED BY <1>1, <1>3, <1>5, <1>6, <1>8

(***************************************************************************)
(* What a component leaves alone keeps its type: the log only grows.       *)
(***************************************************************************)
LEMMA ConsumerFrame ==
    ASSUME TypeOK, UNCHANGED consumerVars,
           Len(log') \in Nat, Len(log) <= Len(log'),
           lastDelivered' \in Nat, lastDelivered <= lastDelivered'
    PROVE  ConsumerTypeOK'
<1>1. Len(log) \in Nat /\ lastDelivered \in Nat
  BY LenProperties DEF TypeOK, StoreTypeOK
<1>2. 1 .. lastDelivered \subseteq 1 .. lastDelivered'
  BY <1>1
<1>3. wpc' = wpc /\ batch' = batch /\ ack' = ack
  BY DEF consumerVars
<1>4. batch \in [Workers -> SUBSET (1 .. lastDelivered')]
  BY <1>2 DEF TypeOK, ConsumerTypeOK
<1> QED BY <1>3, <1>4 DEF TypeOK, ConsumerTypeOK

LEMMA TimeoutFrame ==
    ASSUME TypeOK, UNCHANGED timeoutVars,
           Len(log') \in Nat, Len(log) <= Len(log'),
           lastDelivered' \in Nat, lastDelivered <= lastDelivered'
    PROVE  TimeoutTypeOK'
<1>1. Len(log) \in Nat /\ lastDelivered \in Nat
  BY LenProperties DEF TypeOK, StoreTypeOK
<1>2. 0 .. Len(log) \subseteq 0 .. Len(log') /\ 1 .. lastDelivered \subseteq 1 .. lastDelivered'
  BY <1>1
<1>3. lock' = lock /\ tpc' = tpc /\ cursor' = cursor /\ claimed' = claimed /\ tnew' = tnew
  BY DEF timeoutVars
<1>4. claimed \in [Servers -> SUBSET (1 .. lastDelivered')] /\ tnew \in [Servers -> 0 .. Len(log')]
  BY <1>2 DEF TypeOK, TimeoutTypeOK
<1> QED BY <1>3, <1>4 DEF TypeOK, TimeoutTypeOK

(***************************************************************************)
(* The parts of the type invariant, assembled.                             *)
(***************************************************************************)
LEMMA StoreParts ==
    /\ StoreTypeOK <=> StreamOK /\ MetaOK /\ faults \in 0 .. MaxFaults
    /\ StoreTypeOK' <=> StreamOK' /\ MetaOK' /\ faults' \in 0 .. MaxFaults
BY DEF StoreTypeOK, StreamOK, MetaOK

LEMMA FaultsType ==
    ASSUME faults \in 0 .. MaxFaults, NoFault \/ \E k \in FaultKinds : Fault(k)
    PROVE  faults' \in 0 .. MaxFaults
BY StoreAssumption DEF NoFault, Fault

LEMMA LogLength ==
    ASSUME StreamOK
    PROVE  Len(log) \in Nat /\ lastDelivered \in Nat
BY LenProperties DEF StreamOK

-----------------------------------------------------------------------------
(* Type correctness *)

LEMMA InitType == Init => TypeOK
<1> SUFFICES ASSUME Init PROVE TypeOK
  OBVIOUS
<1> USE DEF Init
<1>1. StoreTypeOK
  <2>1. log \in Seq(Msgs) /\ Len(log) = 0
    BY EmptySeq DEF InitStore
  <2>2. NoHash \in Hash
    BY DEF NoHash, Hash
  <2> QED BY <2>1, <2>2, StoreAssumption DEF InitStore, StoreTypeOK
<1>2. PublisherTypeOK
  BY DEF InitPublisher, PublisherTypeOK, PubStates
<1>3. ConsumerTypeOK
  BY DEF InitConsumer, ConsumerTypeOK, WorkerStates
<1>4. TimeoutTypeOK
  BY LenProperties, EmptySeq DEF InitTimeout, TimeoutTypeOK, TaskStates, InitStore
<1> QED BY <1>1, <1>2, <1>3, <1>4 DEF TypeOK

(***************************************************************************)
(* Each action of a publish call keeps the types.                          *)
(***************************************************************************)
LEMMA PublishingType ==
    ASSUME TypeOK, NEW m \in Msgs, Publishing(m)
    PROVE  TypeOK'
<1> USE DEF TypeOK
<1>1. StreamOK /\ MetaOK /\ faults \in 0 .. MaxFaults /\ PublisherTypeOK
  BY StoreParts
<1>2. Len(log) \in Nat /\ lastDelivered \in Nat
  BY <1>1, LogLength
<1>3. UNCHANGED consumerVars /\ UNCHANGED timeoutVars
  BY DEF Publishing
<1> DEFINE Good == /\ StreamOK' /\ Len(log') \in Nat /\ Len(log) <= Len(log')
                   /\ lastDelivered' = lastDelivered
                   /\ MetaOK' /\ PublisherTypeOK' /\ faults' \in 0 .. MaxFaults
<1>4. Good => TypeOK'
  BY <1>2, <1>3, StoreParts, ConsumerFrame, TimeoutFrame
<1> SUFFICES Good
  BY <1>4
<1> HIDE DEF Good
<1>5. ASSUME UNCHANGED streamVars
      PROVE  StreamOK' /\ Len(log') \in Nat /\ Len(log) <= Len(log') /\ lastDelivered' = lastDelivered
  BY <1>1, <1>2, <1>5 DEF streamVars, StreamOK
<1>6. ASSUME XAdd(m)
      PROVE  StreamOK' /\ Len(log') \in Nat /\ Len(log) <= Len(log') /\ lastDelivered' = lastDelivered
  BY <1>1, <1>2, <1>6, XAddFacts
<1>7. ASSUME UNCHANGED metaVars  PROVE MetaOK'
  BY <1>1, <1>7 DEF metaVars, MetaOK
<1>8. ASSUME WriteMeta(m)  PROVE UNCHANGED streamVars /\ MetaOK' /\ pubId' = pubId
  <2>1. index' \in [Status -> SUBSET Msgs]
    <3>1. Reindex({m}, {}, "Pending")
      BY <1>8 DEF WriteMeta
    <3> QED BY <1>1, <3>1, ReindexType DEF MetaOK, Status
  <2>2. hash' \in [Msgs -> Hash]
    BY <1>1, <1>8 DEF WriteMeta, MetaOK, Hash, Status
  <2> QED BY <1>1, <1>8, <2>1, <2>2 DEF WriteMeta, MetaOK
<1>9. ASSUME WriteId(m)  PROVE UNCHANGED streamVars /\ MetaOK' /\ pubId' = pubId
  <2>1. hash' \in [Msgs -> Hash]
    BY <1>1, <1>9 DEF WriteId, MetaOK, Hash, PublisherTypeOK
  <2> QED BY <1>1, <1>9, <2>1 DEF WriteId, MetaOK
<1>10. ASSUME NEW pc \in PubStates, Goto(m, pc), pubId' \in [Msgs -> Nat]  PROVE PublisherTypeOK'
  BY <1>1, <1>10 DEF PublisherTypeOK, Goto
<1>11. NoFault \/ Fault("PublishError") \/ Fault("PublisherCrash") => faults' \in 0 .. MaxFaults
  BY <1>1, FaultsType DEF FaultKinds
<1> USE DEF PubStates
<1>12. pubId \in [Msgs -> Nat]
  BY <1>1 DEF PublisherTypeOK
<1>a. CASE PublishMeta(m)
  BY <1>a, <1>5, <1>8, <1>10, <1>11, <1>12 DEF PublishMeta, Good
<1>b. CASE PublishXAdd(m)
  <2>1. pubId' \in [Msgs -> Nat]
    BY <1>b, <1>2, <1>12 DEF PublishXAdd
  <2> QED BY <1>b, <2>1, <1>6, <1>7, <1>10, <1>11 DEF PublishXAdd, Good
<1>c. CASE PublishFinish(m)
  BY <1>c, <1>5, <1>9, <1>10, <1>11, <1>12 DEF PublishFinish, Good
<1>d. CASE PublishCleanup(m)
  <2>1. MetaOK'
    BY <1>1, <1>d DEF PublishCleanup, MetaOK, Hash, NoHash, Status
  <2> QED BY <1>d, <2>1, <1>5, <1>10, <1>11, <1>12 DEF PublishCleanup, Good
<1>e. CASE PublishMetaError(m)
  BY <1>e, <1>5, <1>7, <1>8, <1>10, <1>11, <1>12 DEF PublishMetaError, Good
<1>f. CASE PublishXAddError(m)
  BY <1>f, <1>5, <1>6, <1>7, <1>10, <1>11, <1>12 DEF PublishXAddError, Good
<1>g. CASE PublishFinishError(m)
  BY <1>g, <1>5, <1>7, <1>9, <1>10, <1>11, <1>12 DEF PublishFinishError, Good
<1>h. CASE PublisherCrash(m)
  BY <1>h, <1>5, <1>7, <1>10, <1>11, <1>12 DEF PublisherCrash, Good
<1> QED
  BY <1>a, <1>b, <1>c, <1>d, <1>e, <1>f, <1>g, <1>h
     DEF Publishing, PublisherStep, PublisherFault

(***************************************************************************)
(* Each action of a worker keeps the types.                                *)
(***************************************************************************)
LEMMA ConsumingType ==
    ASSUME TypeOK, NEW w \in Workers, Consuming(w)
    PROVE  TypeOK'
<1> USE DEF TypeOK
<1>1. StreamOK /\ MetaOK /\ faults \in 0 .. MaxFaults /\ ConsumerTypeOK
  BY StoreParts
<1>2. Len(log) \in Nat /\ lastDelivered \in Nat
  BY <1>1, LogLength
<1>3. UNCHANGED publisherVars /\ UNCHANGED timeoutVars
  BY DEF Consuming
<1>4. PublisherTypeOK'
  BY <1>3 DEF publisherVars, PublisherTypeOK
<1> DEFINE Good == /\ StreamOK' /\ log' = log
                   /\ lastDelivered' \in Nat /\ lastDelivered <= lastDelivered'
                   /\ MetaOK' /\ ConsumerTypeOK' /\ faults' \in 0 .. MaxFaults
<1>5. Good => TypeOK'
  BY <1>2, <1>3, <1>4, StoreParts, TimeoutFrame
<1> SUFFICES Good
  BY <1>5
<1> HIDE DEF Good
<1> DEFINE Still == StreamOK' /\ log' = log /\ lastDelivered' = lastDelivered
<1>6. ASSUME UNCHANGED streamVars  PROVE Still
  BY <1>1, <1>6 DEF streamVars, StreamOK
<1>7. ASSUME NEW ids, XAckDel(ids)  PROVE Still
  BY <1>1, <1>7, XAckDelFacts
<1> HIDE DEF Still
<1>8. ASSUME UNCHANGED metaVars  PROVE MetaOK'
  BY <1>1, <1>8 DEF metaVars, MetaOK
<1>9. ASSUME NEW ms \in SUBSET Msgs, Complete(ms)  PROVE MetaOK'
  <2>1. index' \in [Status -> SUBSET Msgs]
    <3>1. Reindex(ms, {"Pending", "Processing", "Retrying", "Failed"}, "Completed")
      BY <1>9 DEF Complete
    <3> QED BY <1>1, <3>1, ReindexType DEF MetaOK, Status
  <2>2. hash' \in [Msgs -> Hash]
    <3>1. SetStatus(ms, "Completed")
      BY <1>9 DEF Complete
    <3> QED BY <1>1, <3>1, SetStatusType DEF MetaOK, Status
  <2> QED BY <1>1, <1>9, <2>1, <2>2 DEF Complete, MetaOK
<1>10. \A k \in FaultKinds : NoFault \/ Fault(k) => faults' \in 0 .. MaxFaults
  BY <1>1, FaultsType
<1>11. NoFault \/ Fault("ReadLost") \/ Fault("ResolveError") \/ Fault("CommitError")
         \/ Fault("WorkerCrash") => faults' \in 0 .. MaxFaults
  BY <1>10 DEF FaultKinds
<1>12. ASSUME batch[w] # {}
       PROVE  Current(w) \in batch[w] /\ Current(w) \in 1 .. Len(log) /\ Message(w) \in Msgs
  BY <1>12, CurrentInBatch
<1>13. /\ wpc[w] # "loop" => batch[w] # {}
       /\ ack[w] # {} => wpc[w] \in {"exec", "error"}
  BY <1>1 DEF ConsumerTypeOK
\* The three ways in which the local variables of a worker move.
<1>14. ASSUME Still, NEW pc \in WorkerStates, WGoto(w, pc), batch' = batch, batch[w] # {},
              \/ ack' = ack /\ (pc \in {"exec", "error"} \/ ack[w] = {})
              \/ ack' = [ack EXCEPT ![w] = {}]
       PROVE  ConsumerTypeOK'
  BY <1>1, <1>14 DEF ConsumerTypeOK, WGoto, Still
<1>15. ASSUME Still, NextEntry(w), ack' = ack, ack[w] = {}  PROVE ConsumerTypeOK'
  BY <1>1, <1>15 DEF ConsumerTypeOK, NextEntry, WGoto, WorkerStates, Still
<1>16. ASSUME Still, wpc' = wpc, wpc[w] \in {"exec", "error"}, batch' = batch,
              NEW a \in SUBSET [msg : Msgs, id : Nat], ack' = [ack EXCEPT ![w] = a]
       PROVE  ConsumerTypeOK'
  BY <1>1, <1>16 DEF ConsumerTypeOK, Still
<1>17. Still /\ MetaOK' /\ ConsumerTypeOK' /\ faults' \in 0 .. MaxFaults => Good
  BY <1>2 DEF Still, Good
<1>18. ack[w] \in SUBSET [msg : Msgs, id : Nat]
  BY <1>1 DEF ConsumerTypeOK
<1>19. ASSUME AckExec(w)  PROVE Still /\ MetaOK'
  <2>1. {r.msg : r \in ack[w]} \in SUBSET Msgs
    BY <1>18
  <2> QED BY <1>19, <2>1, <1>7, <1>9 DEF AckExec
<1>20. ASSUME SettleExec(w), batch[w] # {}  PROVE Still /\ MetaOK'
  <2>1. {Message(w)} \in SUBSET Msgs
    BY <1>12, <1>20
  <2> QED BY <1>20, <2>1, <1>7, <1>9 DEF SettleExec
<1> USE DEF WorkerStates
<1>a. CASE Read(w)
  <2>1. Deliver
    BY <1>a DEF Read
  <2>2. StreamOK' /\ log' = log /\ lastDelivered' \in Nat /\ lastDelivered <= lastDelivered'
        /\ NextBatch(Prefetch) \subseteq 1 .. lastDelivered'
    BY <1>1, <1>2, <2>1, DeliverFacts DEF StreamOK
  <2>3. 1 .. lastDelivered \subseteq 1 .. lastDelivered'
    BY <1>2, <2>2
  <2>4. ConsumerTypeOK'
    BY <1>1, <1>a, <2>2, <2>3 DEF Read, ConsumerTypeOK
  <2> QED BY <1>a, <2>2, <2>4, <1>8, <1>11 DEF Read, Good
<1>b. CASE ReadLost(w)
  <2>1. Deliver /\ UNCHANGED consumerVars
    BY <1>b DEF ReadLost
  <2>2. StreamOK' /\ log' = log /\ lastDelivered' \in Nat /\ lastDelivered <= lastDelivered'
    BY <1>1, <1>2, <2>1, DeliverFacts DEF StreamOK
  <2>3. ConsumerTypeOK'
    BY <1>2, <2>1, <2>2, ConsumerFrame
  <2> QED BY <1>b, <2>2, <2>3, <1>8, <1>11 DEF ReadLost, Good
<1>c. CASE ResolveError(w)
  BY <1>c, <1>6, <1>8, <1>11, <1>13, <1>15, <1>17 DEF ResolveError
<1>d. CASE BadPayload(w)
  BY <1>d, <1>6, <1>8, <1>11, <1>14, <1>17 DEF BadPayload
<1>e. CASE Begin(w)
  <2>1. batch[w] # {} /\ Message(w) \in Msgs
    BY <1>e, <1>12 DEF Begin
  <2>2. MetaOK'
    <3>1. Reindex({Message(w)}, {"Pending", "Retrying", "Failed", "Completed"}, "Processing")
      BY <1>e DEF Begin
    <3>2. index' \in [Status -> SUBSET Msgs]
      BY <1>1, <2>1, <3>1, ReindexType DEF MetaOK, Status
    <3>3. hash' \in [Msgs -> Hash]
      BY <1>1, <1>e, <2>1 DEF Begin, MetaOK, Hash, Status
    <3> QED BY <1>1, <1>e, <3>2, <3>3 DEF Begin, MetaOK
  <2> QED BY <1>e, <2>1, <2>2, <1>6, <1>11, <1>14, <1>17 DEF Begin
<1>q. CASE BeginError(w)
  BY <1>q, <1>6, <1>8, <1>11, <1>14, <1>17 DEF BeginError
<1>f. CASE AckResolve(w)
  <2>1. batch[w] # {} /\ Message(w) \in Msgs /\ Current(w) \in 1 .. Len(log)
    BY <1>f, <1>12, <1>13 DEF AckResolve
  <2>2. PICK ms \in SUBSET Ackable(w) : ack' = [ack EXCEPT ![w] = Resolved(w, ms)]
    BY <1>f DEF AckResolve
  <2>3. Ackable(w) \subseteq Msgs
    BY <2>1 DEF Ackable
  <2>4. Resolved(w, ms) \in SUBSET [msg : Msgs, id : Nat]
    BY <1>1, <2>1, <2>3 DEF Resolved, MetaOK, Hash
  <2> QED BY <1>f, <2>2, <2>4, <1>6, <1>8, <1>11, <1>16, <1>17 DEF AckResolve
<1>g. CASE AckCommit(w)
  BY <1>g, <1>11, <1>13, <1>16, <1>17, <1>19 DEF AckCommit
<1>h. CASE AckError(w)
  <2>1. Still /\ MetaOK'
    BY <1>h, <1>6, <1>8, <1>19 DEF AckError
  <2>2. batch[w] # {}
    BY <1>h, <1>13 DEF AckError
  <2> QED BY <1>h, <2>1, <2>2, <1>11, <1>14, <1>17 DEF AckError
<1>i. CASE Return(w)
  <2>1. batch[w] # {}
    BY <1>i, <1>13 DEF Return
  <2>2. Still /\ MetaOK'
    BY <1>i, <2>1, <1>6, <1>8, <1>20 DEF Return
  <2> QED BY <1>i, <2>2, <1>11, <1>15, <1>17 DEF Return
<1>j. CASE ReturnError(w)
  <2>1. batch[w] # {}
    BY <1>j, <1>13 DEF ReturnError
  <2>2. Still /\ MetaOK'
    BY <1>j, <2>1, <1>6, <1>8, <1>20 DEF ReturnError
  <2> QED BY <1>j, <2>1, <2>2, <1>11, <1>14, <1>17 DEF ReturnError
<1>k. CASE Throw(w)
  BY <1>k, <1>6, <1>8, <1>11, <1>13, <1>14, <1>17 DEF Throw
<1>l. CASE ReadAttempts(w)
  <2>1. PICK pc \in WorkerStates : WGoto(w, pc)
    BY <1>l DEF ReadAttempts
  <2> QED BY <1>l, <2>1, <1>6, <1>8, <1>11, <1>13, <1>14, <1>17 DEF ReadAttempts
<1>m. CASE GiveUp(w)
  <2>1. batch[w] # {} /\ Message(w) \in Msgs
    BY <1>m, <1>12, <1>13 DEF GiveUp
  <2>2. MetaOK'
    <3>1. Reindex({Message(w)}, {"Pending", "Processing", "Completed", "Retrying"}, "Failed")
      BY <1>m DEF GiveUp
    <3>2. index' \in [Status -> SUBSET Msgs]
      BY <1>1, <2>1, <3>1, ReindexType DEF MetaOK, Status
    <3>3. hash' \in [Msgs -> Hash]
      BY <1>1, <1>m, <2>1 DEF GiveUp, MetaOK, Hash, Status
    <3> QED BY <1>1, <1>m, <2>1, <3>2, <3>3 DEF GiveUp, MetaOK
  <2> QED BY <1>m, <2>2, <1>7, <1>11, <1>13, <1>15, <1>17 DEF GiveUp
<1>n. CASE Retry(w)
  <2>1. batch[w] # {} /\ Message(w) \in Msgs
    BY <1>n, <1>12, <1>13 DEF Retry
  <2>2. MetaOK'
    <3>1. Reindex({Message(w)}, {"Pending", "Processing", "Completed", "Failed"}, "Retrying")
      BY <1>n DEF Retry
    <3>2. index' \in [Status -> SUBSET Msgs]
      BY <1>1, <2>1, <3>1, ReindexType DEF MetaOK, Status
    <3>3. hash' \in [Msgs -> Hash]
      BY <1>1, <1>n, <2>1 DEF Retry, MetaOK, Hash, Status
    <3> QED BY <1>1, <1>n, <3>2, <3>3 DEF Retry, MetaOK
  <2> QED BY <1>n, <2>2, <1>6, <1>11, <1>13, <1>15, <1>17 DEF Retry
<1>o. CASE ErrorLost(w)
  BY <1>o, <1>6, <1>8, <1>11, <1>15, <1>17 DEF ErrorLost
<1>p. CASE WorkerCrash(w)
  <2>1. ConsumerTypeOK'
    BY <1>1, <1>p, <1>6 DEF WorkerCrash, ConsumerTypeOK, WGoto, Still
  <2> QED BY <1>p, <2>1, <1>6, <1>8, <1>11, <1>17 DEF WorkerCrash
<1> QED
  BY <1>a, <1>b, <1>c, <1>d, <1>e, <1>f, <1>g, <1>h, <1>i, <1>j, <1>k, <1>l, <1>m,
     <1>n, <1>o, <1>p, <1>q
     DEF Consuming, WorkerStep, HandlerChoice, WorkerFault

(***************************************************************************)
(* Each action of a timeout service keeps the types.                       *)
(***************************************************************************)
LEMMA RecoveringType ==
    ASSUME TypeOK, NEW s \in Servers, Recovering(s)
    PROVE  TypeOK'
<1> USE DEF TypeOK
<1>1. StreamOK /\ MetaOK /\ faults \in 0 .. MaxFaults /\ TimeoutTypeOK
  BY StoreParts
<1>2. Len(log) \in Nat /\ lastDelivered \in Nat
  BY <1>1, LogLength
<1>3. UNCHANGED publisherVars /\ UNCHANGED consumerVars
  BY DEF Recovering
<1>4. PublisherTypeOK'
  BY <1>3 DEF publisherVars, PublisherTypeOK
<1> DEFINE Good == /\ StreamOK' /\ Len(log') \in Nat /\ Len(log) <= Len(log')
                   /\ lastDelivered' = lastDelivered
                   /\ MetaOK' /\ TimeoutTypeOK' /\ faults' \in 0 .. MaxFaults
<1>5. Good => TypeOK'
  BY <1>2, <1>3, <1>4, StoreParts, ConsumerFrame
<1> SUFFICES Good
  BY <1>5
<1> HIDE DEF Good
<1> DEFINE Still == StreamOK' /\ log' = log /\ lastDelivered' = lastDelivered
<1>6. ASSUME UNCHANGED streamVars  PROVE Still
  BY <1>1, <1>6 DEF streamVars, StreamOK
<1>7. ASSUME NEW ids, XAckDel(ids)  PROVE Still
  BY <1>1, <1>7, XAckDelFacts
<1> HIDE DEF Still
<1>8. ASSUME UNCHANGED metaVars  PROVE MetaOK'
  BY <1>1, <1>8 DEF metaVars, MetaOK
<1>9. NoFault \/ Fault("TimeoutError") \/ Fault("TimeoutCrash") => faults' \in 0 .. MaxFaults
  BY <1>1, FaultsType DEF FaultKinds
<1>10. Still /\ MetaOK' /\ TimeoutTypeOK' /\ faults' \in 0 .. MaxFaults => Good
  BY <1>2 DEF Still, Good
<1>11. tpc[s] \in {"claim", "entry", "giveup", "republish", "commit"} =>
         /\ claimed[s] # {} /\ Entry(s) \in claimed[s] /\ log[Entry(s)] \in Msgs
         /\ Entry(s) \in 1 .. Len(log)
  BY <1>1, EntryInClaimed DEF TimeoutTypeOK
<1> DEFINE holding == {"claim", "entry", "giveup", "republish", "commit"}
\* The ways in which the local variables of the task move.
<1>12. ASSUME Still, NEW pc \in TaskStates, TGoto(s, pc), pc \in holding => claimed[s] # {},
              UNCHANGED <<claimed, tnew>>, lock' \in Servers \union {NoServer},
              cursor' \in [Servers -> Nat]
       PROVE  TimeoutTypeOK'
  BY <1>1, <1>12 DEF TimeoutTypeOK, TGoto, Still
<1>13. ASSUME Still, NextClaimed(s), claimed[s] # {}  PROVE TimeoutTypeOK'
  <2>1. claimed' = [claimed EXCEPT ![s] = @ \ {Entry(s)}] /\ tnew' = [tnew EXCEPT ![s] = 0]
        /\ tpc' = [tpc EXCEPT ![s] = IF claimed[s] = {Entry(s)} THEN "scan" ELSE "entry"]
        /\ lock' = lock /\ cursor' = cursor
    BY <1>13 DEF NextClaimed, TGoto
  <2>2. claimed[s] # {Entry(s)} => claimed[s] \ {Entry(s)} # {}
    BY <1>13
  <2> QED BY <1>1, <1>2, <1>13, <2>1, <2>2 DEF TimeoutTypeOK, TaskStates, Still
<1>14. /\ lock \in Servers \union {NoServer} /\ cursor \in [Servers -> Nat]
       /\ [cursor EXCEPT ![s] = 0] \in [Servers -> Nat]
  BY <1>1 DEF TimeoutTypeOK
<1> USE DEF TaskStates
<1>a. CASE AcquireLock(s)
  BY <1>a, <1>6, <1>8, <1>9, <1>10, <1>12, <1>14 DEF AcquireLock
<1>b. CASE ScanPage(s)
  <2>1. Page(s) \intersect idle \in SUBSET (1 .. lastDelivered) /\ Page(s) \subseteq Nat
    <3>1. Page(s) \subseteq pel
      BY DEF Page
    <3>2. pel \subseteq 1 .. lastDelivered
      BY <1>1 DEF StreamOK
    <3>3. 1 .. lastDelivered \subseteq Nat
      BY <1>2
    <3>4. Page(s) \intersect idle \subseteq Page(s)
      OBVIOUS
    <3> QED BY <3>1, <3>2, <3>3, <3>4
  <2>2. Still /\ MetaOK' /\ faults' \in 0 .. MaxFaults
    BY <1>b, <1>6, <1>8, <1>9 DEF ScanPage
  <2>3. CASE Page(s) = {}
    BY <1>b, <2>2, <2>3, <1>10, <1>12, <1>14 DEF ScanPage
  <2>4. CASE Page(s) # {}
    <3>1. PICK last \in Page(s) : cursor' = [cursor EXCEPT ![s] = NextStreamId(last)]
      BY <1>b, <2>4 DEF ScanPage
    <3>2. cursor' \in [Servers -> Nat]
      BY <1>14, <2>1, <3>1 DEF NextStreamId
    <3>3. claimed' = [claimed EXCEPT ![s] = Page(s) \intersect idle] /\ lock' = lock /\ tnew' = tnew
          /\ tpc' = [tpc EXCEPT ![s] = IF Page(s) \intersect idle = {} THEN "scan" ELSE "claim"]
      BY <1>b, <2>4 DEF ScanPage, TGoto
    <3>4. TimeoutTypeOK'
      BY <1>1, <2>1, <2>2, <3>2, <3>3 DEF TimeoutTypeOK, Still
    <3> QED BY <2>2, <3>4, <1>10
  <2> QED BY <2>3, <2>4
<1>c. CASE Claim(s)
  <2> DEFINE got == claimed[s] \intersect idle
  <2>1. /\ claimed' = [claimed EXCEPT ![s] = got] /\ lock' = lock /\ tnew' = tnew /\ cursor' = cursor
        /\ tpc' = [tpc EXCEPT ![s] = IF got = {} THEN "scan" ELSE "entry"]
        /\ idle' = idle \ got /\ UNCHANGED <<log, live, lastDelivered, pel, metaVars>> /\ NoFault
    BY <1>c DEF Claim, TGoto
  <2>2. Still
    BY <1>1, <2>1 DEF StreamOK, Still
  <2>3. got \in SUBSET (1 .. lastDelivered)
    BY <1>1 DEF TimeoutTypeOK
  <2>4. TimeoutTypeOK'
    BY <1>1, <2>1, <2>2, <2>3 DEF TimeoutTypeOK, Still
  <2> QED BY <2>1, <2>2, <2>4, <1>8, <1>9, <1>10
<1>d. CASE Inspect(s)
  <2>1. PICK pc \in {"giveup", "republish"} : TGoto(s, pc)
    BY <1>d DEF Inspect
  <2> QED BY <1>d, <2>1, <1>6, <1>8, <1>9, <1>10, <1>11, <1>12, <1>14 DEF Inspect
<1>e. CASE FailCommit(s)
  <2>1. claimed[s] # {} /\ log[Entry(s)] \in Msgs
    BY <1>e, <1>11 DEF FailCommit
  <2>2. MetaOK'
    <3>1. /\ SetStatus({log[Entry(s)]}, "Failed")
          /\ Reindex({log[Entry(s)]}, {"Pending", "Processing", "Retrying", "Completed"}, "Failed")
      BY <1>e DEF FailCommit
    <3>2. index' \in [Status -> SUBSET Msgs]
      BY <1>1, <2>1, <3>1, ReindexType DEF MetaOK, Status
    <3>3. hash' \in [Msgs -> Hash]
      BY <1>1, <2>1, <3>1, SetStatusType DEF MetaOK, Status
    <3> QED BY <1>1, <1>e, <2>1, <3>2, <3>3 DEF FailCommit, MetaOK
  <2> QED BY <1>e, <2>1, <2>2, <1>7, <1>9, <1>10, <1>13 DEF FailCommit
<1>f. CASE Republish(s)
  <2>1. claimed[s] # {} /\ log[Entry(s)] \in Msgs
    BY <1>f, <1>11 DEF Republish
  <2>2. XAdd(log[Entry(s)])
    BY <1>f DEF Republish
  <2>3. /\ StreamOK' /\ Len(log') = Len(log) + 1 /\ lastDelivered' = lastDelivered
    BY <1>1, <2>1, <2>2, XAddFacts
  <2>4. /\ tnew' = [tnew EXCEPT ![s] = Len(log) + 1] /\ tpc' = [tpc EXCEPT ![s] = "commit"]
        /\ lock' = lock /\ cursor' = cursor /\ claimed' = claimed /\ UNCHANGED metaVars /\ NoFault
    BY <1>f DEF Republish, TGoto
  <2>5. tnew' \in [Servers -> 0 .. Len(log')]
    BY <1>1, <1>2, <2>3, <2>4 DEF TimeoutTypeOK
  <2>6. TimeoutTypeOK'
    BY <1>1, <2>1, <2>3, <2>4, <2>5 DEF TimeoutTypeOK
  <2> QED BY <1>2, <2>3, <2>4, <2>6, <1>8, <1>9 DEF Good
<1>g. CASE RepublishCommit(s)
  <2>1. claimed[s] # {} /\ log[Entry(s)] \in Msgs
    BY <1>g, <1>11 DEF RepublishCommit
  <2>2. MetaOK'
    <3>1. Reindex({log[Entry(s)]}, {"Processing", "Retrying", "Failed", "Completed"}, "Pending")
      BY <1>g DEF RepublishCommit
    <3>2. index' \in [Status -> SUBSET Msgs]
      BY <1>1, <2>1, <3>1, ReindexType DEF MetaOK, Status
    <3>3. tnew[s] \in Nat
      BY <1>1, <1>2 DEF TimeoutTypeOK
    <3>4. hash' \in [Msgs -> Hash]
      BY <1>1, <1>g, <2>1, <3>3 DEF RepublishCommit, MetaOK, Hash, Status
    <3> QED BY <1>1, <1>g, <3>2, <3>4 DEF RepublishCommit, MetaOK
  <2> QED BY <1>g, <2>1, <2>2, <1>7, <1>9, <1>10, <1>13 DEF RepublishCommit
<1>h. CASE Unlock(s)
  <2>1. lock' \in Servers \union {NoServer}
    BY <1>h, <1>14 DEF Unlock
  <2> QED BY <1>h, <2>1, <1>6, <1>8, <1>9, <1>10, <1>12, <1>14 DEF Unlock
<1>15. ASSUME Drop(s), NEW pc \in {"unlock", "lock"}, TGoto(s, pc)
       PROVE  Still /\ MetaOK' /\ TimeoutTypeOK'
  <2>1. Still /\ MetaOK'
    BY <1>6, <1>8, <1>15 DEF Drop
  <2>2. tnew' \in [Servers -> 0 .. Len(log')]
    BY <1>1, <1>2, <1>15, <2>1 DEF Drop, TimeoutTypeOK, Still
  <2>3. TimeoutTypeOK'
    BY <1>1, <1>15, <2>1, <2>2 DEF Drop, TGoto, TimeoutTypeOK, Still
  <2> QED BY <2>1, <2>3
<1>i. CASE TimeoutError(s)
  BY <1>i, <1>9, <1>10, <1>15 DEF TimeoutError
<1>j. CASE TimeoutCrash(s)
  BY <1>j, <1>9, <1>10, <1>15 DEF TimeoutCrash
<1> QED
  BY <1>a, <1>b, <1>c, <1>d, <1>e, <1>f, <1>g, <1>h, <1>i, <1>j
     DEF Recovering, TimeoutStep, TimeoutFault

(***************************************************************************)
(* So do the clock and the expiry of the lock, and steps that change       *)
(* nothing.                                                                *)
(***************************************************************************)
LEMMA NextType == TypeOK /\ [Next]_vars => TypeOK'
<1> SUFFICES ASSUME TypeOK, [Next]_vars PROVE TypeOK'
  OBVIOUS
<1>1. StreamOK /\ MetaOK /\ faults \in 0 .. MaxFaults
  BY StoreParts DEF TypeOK
<1>2. Len(log) \in Nat /\ lastDelivered \in Nat
  BY <1>1, LogLength
<1>a. ASSUME NEW m \in Msgs, Publishing(m)  PROVE TypeOK'
  BY <1>a, PublishingType
<1>b. ASSUME NEW w \in Workers, Consuming(w)  PROVE TypeOK'
  BY <1>b, ConsumingType
<1>c. ASSUME NEW s \in Servers, Recovering(s)  PROVE TypeOK'
  BY <1>c, RecoveringType
<1>d. ASSUME NEW i \in pel, Elapse(i), Passing  PROVE TypeOK'
  <2>1. /\ log' = log /\ live' = live /\ lastDelivered' = lastDelivered /\ pel' = pel
        /\ idle' = idle \union {i} /\ faults' = faults
        /\ UNCHANGED metaVars /\ UNCHANGED publisherVars /\ UNCHANGED consumerVars /\ UNCHANGED timeoutVars
    BY <1>d DEF Passing, Elapse
  <2>2. StoreTypeOK'
    BY <1>1, <2>1, StoreParts DEF StreamOK, MetaOK, metaVars
  <2>3. PublisherTypeOK'
    BY <2>1 DEF TypeOK, PublisherTypeOK, publisherVars
  <2>4. ConsumerTypeOK' /\ TimeoutTypeOK'
    BY <1>2, <2>1, ConsumerFrame, TimeoutFrame
  <2> QED BY <2>2, <2>3, <2>4 DEF TypeOK
<1>e. CASE Passing /\ \E t \in Servers : LockExpires(t)
  <2>1. /\ UNCHANGED streamVars /\ UNCHANGED metaVars /\ faults' = faults
        /\ UNCHANGED publisherVars /\ UNCHANGED consumerVars
        /\ lock' = NoServer /\ tpc' = tpc /\ cursor' = cursor /\ claimed' = claimed /\ tnew' = tnew
    BY <1>e DEF Passing, LockExpires
  <2>2. StoreTypeOK' /\ log' = log /\ lastDelivered' = lastDelivered
    BY <1>1, <2>1, StoreParts DEF StreamOK, MetaOK, streamVars, metaVars
  <2>3. PublisherTypeOK'
    BY <2>1 DEF TypeOK, PublisherTypeOK, publisherVars
  <2>4. ConsumerTypeOK'
    BY <1>2, <2>1, <2>2, ConsumerFrame
  <2>5. TimeoutTypeOK'
    BY <2>1, <2>2 DEF TypeOK, TimeoutTypeOK
  <2> QED BY <2>2, <2>3, <2>4, <2>5 DEF TypeOK
<1>f. CASE UNCHANGED vars
  <2>1. /\ UNCHANGED streamVars /\ UNCHANGED metaVars /\ faults' = faults
        /\ UNCHANGED publisherVars /\ UNCHANGED consumerVars /\ UNCHANGED timeoutVars
    BY <1>f DEF vars
  <2>2. StoreTypeOK' /\ log' = log /\ lastDelivered' = lastDelivered
    BY <1>1, <2>1, StoreParts DEF StreamOK, MetaOK, streamVars, metaVars
  <2>3. PublisherTypeOK'
    BY <2>1 DEF TypeOK, PublisherTypeOK, publisherVars
  <2> QED BY <1>2, <2>1, <2>2, <2>3, ConsumerFrame, TimeoutFrame DEF TypeOK
<1> QED BY <1>a, <1>b, <1>c, <1>d, <1>e, <1>f DEF Next, Passing

(***************************************************************************)
(* Type correctness: the stream, the group, the metadata and the local     *)
(* variables of every task keep their types in every behaviour.            *)
(***************************************************************************)
THEOREM TypeCorrect == Spec => []TypeOK
<1>1. Init => TypeOK
  BY InitType
<1>2. TypeOK /\ [Next]_vars => TypeOK'
  BY NextType
<1> QED BY <1>1, <1>2, PTL DEF Spec

-----------------------------------------------------------------------------
(* Steps as seen from the stream *)

\* The log keeps every entry it has.
Grows == Len(log) <= Len(log') /\ \A i \in 1 .. Len(log) : log'[i] = log[i]

\* An unsettled message loses no entry, and gets one when it is first sent.
Carried ==
    /\ settled \subseteq settled'
    /\ \A k \in Msgs : k \notin settled' =>
          /\ Carriers(k) \subseteq Carriers(k)'
          /\ Sent(k)' => Sent(k) \/ Carriers(k)' # {}

\* Replaced, of one service.
ReplacedFor(s) ==
    tpc[s] = "commit" /\ log[Entry(s)] \notin settled =>
        \E c \in Carriers(log[Entry(s)]) : c >= tnew[s]

\* OwnNew, of one service.
OwnNewFor(s) ==
    tpc[s] = "commit" =>
        tnew[s] \in 1 .. Len(log) /\ log[tnew[s]] = log[Entry(s)] /\ Entry(s) < tnew[s]

LEMMA StreamType == TypeOK => StreamOK /\ MetaOK /\ Len(log) \in Nat
BY StoreParts, LogLength DEF TypeOK

(***************************************************************************)
(* A step that does not touch the stream carries every message over.       *)
(***************************************************************************)
LEMMA StillCarries ==
    ASSUME TypeOK, log' = log, live' = live, settled \subseteq settled'
    PROVE  Grows /\ Carried
<1>1. Len(log) \in Nat
  BY StreamType
<1>2. \A k : Carriers(k)' = Carriers(k) /\ (Sent(k)' <=> Sent(k))
  BY DEF Carriers, Sent
<1> QED BY <1>1, <1>2 DEF Grows, Carried

(***************************************************************************)
(* XADD carries every message over: it only adds an entry.                 *)
(***************************************************************************)
LEMMA XAddCarries ==
    ASSUME TypeOK, NEW m \in Msgs, XAdd(m), settled' = settled
    PROVE  /\ Grows /\ Carried
           /\ Len(log) + 1 \in Carriers(m)'
           /\ Len(log') = Len(log) + 1
<1>1. /\ StreamOK /\ Len(log) \in Nat /\ Len(log') = Len(log) + 1
      /\ \A i \in 1 .. Len(log) : log'[i] = log[i]
      /\ log'[Len(log) + 1] = m
      /\ live' = live \union {Len(log) + 1}
  BY StreamType, XAddFacts
<1>2. Grows
  BY <1>1 DEF Grows
<1>3. Len(log) + 1 \in Carriers(m)'
  BY <1>1 DEF Carriers
<1>4. ASSUME NEW k \in Msgs  PROVE Carriers(k) \subseteq Carriers(k)'
  <2>1. ASSUME NEW i \in Carriers(k)  PROVE i \in Carriers(k)'
    <3>1. i \in live /\ log[i] = k /\ i \in 1 .. Len(log)
      BY <1>1 DEF Carriers, StreamOK
    <3> QED BY <1>1, <3>1 DEF Carriers
  <2> QED BY <2>1
<1>5. ASSUME NEW k \in Msgs, Sent(k)'  PROVE Sent(k) \/ Carriers(k)' # {}
  <2>1. PICK i \in 1 .. Len(log') : log'[i] = k
    BY <1>5 DEF Sent
  <2>2. CASE i \in 1 .. Len(log)
    BY <1>1, <2>1, <2>2 DEF Sent
  <2>3. CASE i = Len(log) + 1
    BY <1>1, <1>3, <2>1, <2>3
  <2> QED BY <1>1, <2>1, <2>2, <2>3
<1> QED BY <1>1, <1>2, <1>3, <1>4, <1>5 DEF Carried

(***************************************************************************)
(* XACK and XDEL of entries whose messages are settled in the same MULTI.  *)
(***************************************************************************)
LEMMA SettlingCarries ==
    ASSUME TypeOK, NEW ids, XAckDel(ids), settled \subseteq settled',
           \A i \in ids : log[i] \in settled'
    PROVE  Grows /\ Carried
<1>1. log' = log /\ live' = live \ ids /\ Len(log) \in Nat
  BY StreamType, XAckDelFacts
<1>2. Grows
  BY <1>1 DEF Grows
<1>3. ASSUME NEW k \in Msgs, k \notin settled'
      PROVE  Carriers(k) \subseteq Carriers(k)' /\ (Sent(k)' => Sent(k))
  BY <1>1, <1>3 DEF Carriers, Sent
<1> QED BY <1>2, <1>3 DEF Carried

-----------------------------------------------------------------------------
(* What carries over *)

LEMMA NoLossKept ==
    ASSUME NoLoss, Carried
    PROVE  NoLoss'
<1> SUFFICES ASSUME NEW k \in Msgs, Sent(k)', k \notin settled'
             PROVE  Carriers(k)' # {}
  BY DEF NoLoss
<1>1. Carriers(k) \subseteq Carriers(k)' /\ (Sent(k) \/ Carriers(k)' # {}) /\ k \notin settled
  BY DEF Carried
<1> QED BY <1>1 DEF NoLoss

LEMMA OwnHashKept ==
    ASSUME TypeOK, OwnHash, Grows, Len(log') \in Nat, \A k \in Msgs : hash'[k].id = hash[k].id
    PROVE  OwnHash'
<1>1. 1 .. Len(log) \subseteq 1 .. Len(log')
  BY StreamType DEF Grows
<1> QED BY <1>1 DEF OwnHash, Grows

LEMMA OwnPubKept ==
    ASSUME TypeOK, OwnPub, Grows, Len(log') \in Nat, UNCHANGED publisherVars
    PROVE  OwnPub'
<1>1. 1 .. Len(log) \subseteq 1 .. Len(log')
  BY StreamType DEF Grows
<1> QED BY <1>1 DEF OwnPub, Grows, publisherVars

LEMMA OwnAckKept ==
    ASSUME TypeOK, OwnAck, Grows, Len(log') \in Nat, \A w \in Workers : ack'[w] \subseteq ack[w]
    PROVE  OwnAck'
<1>1. 1 .. Len(log) \subseteq 1 .. Len(log')
  BY StreamType DEF Grows
<1> QED BY <1>1 DEF OwnAck, Grows

\* A service whose own variables do not move keeps its entry and its witness.
LEMMA ServiceKept ==
    ASSUME TypeOK, Grows, Carried, Len(log') \in Nat,
           NEW s \in Servers, OwnNewFor(s), ReplacedFor(s),
           tpc'[s] = tpc[s], claimed'[s] = claimed[s], tnew'[s] = tnew[s]
    PROVE  OwnNewFor(s)' /\ ReplacedFor(s)'
<1> SUFFICES ASSUME tpc[s] = "commit"
             PROVE  OwnNewFor(s)' /\ ReplacedFor(s)'
  BY DEF OwnNewFor, ReplacedFor
<1>1. Entry(s)' = Entry(s)
  BY DEF Entry
<1>2. Entry(s) \in 1 .. Len(log) /\ log[Entry(s)] \in Msgs
  <2>1. claimed[s] # {}
    BY DEF TypeOK, TimeoutTypeOK
  <2> QED BY <2>1, EntryInClaimed
<1>3. log'[Entry(s)] = log[Entry(s)]
  BY <1>2 DEF Grows
<1>4. tnew[s] \in 1 .. Len(log) /\ log[tnew[s]] = log[Entry(s)] /\ Entry(s) < tnew[s]
  BY DEF OwnNewFor
<1>5. tnew[s] \in 1 .. Len(log') /\ log'[tnew[s]] = log[tnew[s]]
  BY <1>4, StreamType DEF Grows
<1>6. OwnNewFor(s)'
  BY <1>1, <1>3, <1>4, <1>5 DEF OwnNewFor
<1>7. ReplacedFor(s)'
  <2> PICK k \in Msgs : k = log[Entry(s)]
    BY <1>2
  <2> SUFFICES ASSUME k \notin settled'
               PROVE  \E c \in Carriers(k)' : c >= tnew[s]
    BY <1>1, <1>3 DEF ReplacedFor
  <2>1. k \notin settled /\ Carriers(k) \subseteq Carriers(k)'
    BY <1>2 DEF Carried
  <2>2. PICK c \in Carriers(k) : c >= tnew[s]
    BY <2>1 DEF ReplacedFor
  <2> QED BY <2>1, <2>2
<1> QED BY <1>6, <1>7

LEMMA ServicesJoined ==
    /\ OwnNew <=> \A s \in Servers : OwnNewFor(s)
    /\ Replaced <=> \A s \in Servers : ReplacedFor(s)
    /\ OwnNew' <=> \A s \in Servers : OwnNewFor(s)'
    /\ Replaced' <=> \A s \in Servers : ReplacedFor(s)'
BY DEF OwnNew, Replaced, OwnNewFor, ReplacedFor

LEMMA ServicesKept ==
    ASSUME TypeOK, OwnNew, Replaced, Grows, Carried, Len(log') \in Nat, UNCHANGED timeoutVars
    PROVE  OwnNew' /\ Replaced'
<1>1. tpc' = tpc /\ claimed' = claimed /\ tnew' = tnew
  BY DEF timeoutVars
<1>2. ASSUME NEW s \in Servers  PROVE OwnNewFor(s)' /\ ReplacedFor(s)'
  BY <1>1, ServicesJoined, ServiceKept
<1> QED BY <1>2, ServicesJoined
-----------------------------------------------------------------------------
(* The three kinds of task *)

Inv == OwnHash /\ OwnPub /\ OwnAck /\ OwnNew /\ NoLoss /\ Replaced

(***************************************************************************)
(* A publish call only adds an entry, and stores the id of its own one.    *)
(***************************************************************************)
LEMMA PublishingInv ==
    ASSUME TypeOK, Inv, NEW m \in Msgs, Publishing(m), Len(log') \in Nat
    PROVE  Inv'
<1> USE DEF Inv
<1>1. UNCHANGED consumerVars /\ UNCHANGED timeoutVars
  BY DEF Publishing
<1>2. hash \in [Msgs -> Hash] /\ pub \in [Msgs -> PubStates] /\ pubId \in [Msgs -> Nat]
  BY DEF TypeOK, StoreTypeOK, PublisherTypeOK
<1> DEFINE Good == Grows /\ Carried /\ OwnHash' /\ OwnPub'
<1>3. Good => Inv'
  BY <1>1, NoLossKept, OwnAckKept, ServicesKept DEF consumerVars
<1> SUFFICES Good
  BY <1>3
<1> HIDE DEF Good
<1>4. ASSUME UNCHANGED streamVars, settled' = settled  PROVE Grows /\ Carried
  BY <1>4, StillCarries DEF streamVars
<1>5. ASSUME XAdd(m), settled' = settled
      PROVE  /\ Grows /\ Carried
             /\ Len(log) + 1 \in 1 .. Len(log') /\ log'[Len(log) + 1] = m
  BY <1>5, XAddCarries, StreamType, XAddFacts
\* The field Id is cleared, or is the id the XADD returned.
<1>6. ASSUME UNCHANGED hash, Grows  PROVE OwnHash'
  BY <1>6, OwnHashKept
<1>7. ASSUME hash' = [hash EXCEPT ![m] = hash'[m]], hash'[m].id = 0, log' = log  PROVE OwnHash'
  BY <1>2, <1>7 DEF OwnHash
<1>8. ASSUME WriteMeta(m)  PROVE UNCHANGED streamVars /\ settled' = settled /\ OwnHash' /\ pubId' = pubId
  <2>1. UNCHANGED streamVars /\ settled' = settled /\ pubId' = pubId
    BY <1>8 DEF WriteMeta
  <2>2. hash' = [hash EXCEPT ![m] = hash'[m]] /\ hash'[m].id = 0
    BY <1>2, <1>8 DEF WriteMeta
  <2> QED BY <2>1, <2>2, <1>7 DEF streamVars
<1>9. ASSUME WriteId(m), pub[m] = "added"
      PROVE  UNCHANGED streamVars /\ settled' = settled /\ OwnHash' /\ pubId' = pubId
  <2>1. UNCHANGED streamVars /\ settled' = settled /\ pubId' = pubId /\ log' = log
    BY <1>9 DEF WriteId, streamVars
  <2>2. \A k \in Msgs : hash'[k].id = IF k = m THEN pubId[m] ELSE hash[k].id
    BY <1>2, <1>9 DEF WriteId, Hash
  <2>3. pubId[m] \in 1 .. Len(log) /\ log[pubId[m]] = m
    BY <1>9 DEF OwnPub
  <2>4. OwnHash'
    BY <2>1, <2>2, <2>3 DEF OwnHash
  <2> QED BY <2>1, <2>4
\* Only the XADD leads to "added".
<1>10. ASSUME NEW pc, Goto(m, pc), pc # "added", pubId' = pubId, Grows  PROVE OwnPub'
  <2>1. \A k \in Msgs : pub'[k] = "added" => pub[k] = "added"
    BY <1>2, <1>10 DEF Goto
  <2>2. 1 .. Len(log) \subseteq 1 .. Len(log')
    BY <1>10, StreamType DEF Grows
  <2> QED BY <1>10, <2>1, <2>2 DEF OwnPub, Grows
<1>a. CASE PublishMeta(m)
  BY <1>a, <1>4, <1>8, <1>10 DEF PublishMeta, Good
<1>b. CASE PublishXAdd(m)
  <2>1. XAdd(m) /\ UNCHANGED hash /\ settled' = settled
    BY <1>b DEF PublishXAdd, metaVars
  <2>2. \A k \in Msgs : /\ pub'[k] = (IF k = m THEN "added" ELSE pub[k])
                        /\ pubId'[k] = (IF k = m THEN Len(log) + 1 ELSE pubId[k])
    BY <1>2, <1>b DEF PublishXAdd, Goto
  <2>3. Grows
    BY <2>1, <1>5
  <2>4. 1 .. Len(log) \subseteq 1 .. Len(log')
    BY <2>3, StreamType DEF Grows
  <2>5. OwnPub'
    BY <2>1, <2>2, <2>3, <2>4, <1>5 DEF OwnPub, Grows
  <2> QED BY <2>1, <2>5, <1>5, <1>6 DEF Good
<1>c. CASE PublishFinish(m)
  BY <1>c, <1>4, <1>9, <1>10 DEF PublishFinish, Good
<1>d. CASE PublishCleanup(m)
  <2>1. UNCHANGED streamVars /\ settled' = settled /\ log' = log /\ pubId' = pubId /\ Goto(m, "failed")
    BY <1>d DEF PublishCleanup, streamVars
  <2>2. hash' = [hash EXCEPT ![m] = hash'[m]] /\ hash'[m].id = 0
    BY <1>2, <1>d DEF PublishCleanup, NoHash
  <2> QED BY <2>1, <2>2, <1>4, <1>7, <1>10 DEF Good
<1>e. CASE PublishMetaError(m)
  <2>1. UNCHANGED streamVars /\ settled' = settled /\ pubId' = pubId /\ (OwnHash' \/ UNCHANGED hash)
    BY <1>e, <1>8 DEF PublishMetaError, metaVars
  <2> QED BY <1>e, <2>1, <1>4, <1>6, <1>10 DEF PublishMetaError, Good
<1>f. CASE PublishXAddError(m)
  <2>1. UNCHANGED hash /\ settled' = settled /\ pubId' = pubId
    BY <1>f DEF PublishXAddError, metaVars
  <2>2. Grows /\ Carried
    BY <1>f, <2>1, <1>4, <1>5 DEF PublishXAddError
  <2> QED BY <1>f, <2>1, <2>2, <1>6, <1>10 DEF PublishXAddError, Good
<1>g. CASE PublishFinishError(m)
  <2>1. UNCHANGED streamVars /\ settled' = settled /\ pubId' = pubId /\ (OwnHash' \/ UNCHANGED hash)
    BY <1>g, <1>9 DEF PublishFinishError, metaVars
  <2> QED BY <1>g, <2>1, <1>4, <1>6, <1>10 DEF PublishFinishError, Good
<1>h. CASE PublisherCrash(m)
  <2>1. UNCHANGED streamVars /\ settled' = settled /\ pubId' = pubId /\ UNCHANGED hash
    BY <1>h DEF PublisherCrash, metaVars
  <2> QED BY <1>h, <2>1, <1>4, <1>6, <1>10 DEF PublisherCrash, Good
<1> QED
  BY <1>a, <1>b, <1>c, <1>d, <1>e, <1>f, <1>g, <1>h
     DEF Publishing, PublisherStep, PublisherFault

(***************************************************************************)
(* A worker deletes entries only of messages it settles in the same MULTI, *)
(* and the ids it resolved for AckAsync are those messages' own.           *)
(***************************************************************************)
LEMMA ConsumingInv ==
    ASSUME TypeOK, Inv, NEW w \in Workers, Consuming(w), Len(log') \in Nat
    PROVE  Inv'
<1> USE DEF Inv
<1>1. UNCHANGED publisherVars /\ UNCHANGED timeoutVars
  BY DEF Consuming
<1>2. /\ hash \in [Msgs -> Hash] /\ ack \in [Workers -> SUBSET [msg : Msgs, id : Nat]]
      /\ wpc \in [Workers -> WorkerStates]
  BY DEF TypeOK, StoreTypeOK, ConsumerTypeOK
<1> DEFINE SameIds == \A k \in Msgs : hash'[k].id = hash[k].id
           Kept    == \A v \in Workers : ack'[v] \subseteq ack[v]
           Moved   == Grows /\ Carried
           Good    == Moved /\ SameIds /\ OwnAck'
<1>3. Good => Inv'
  BY <1>1, NoLossKept, OwnHashKept, OwnPubKept, ServicesKept
<1>4. Moved /\ SameIds /\ Kept => Good
  BY OwnAckKept
<1> SUFFICES Good
  BY <1>3
<1>5. wpc[w] # "loop" \/ ack[w] # {} => batch[w] # {}
  BY <1>2 DEF TypeOK, ConsumerTypeOK
<1>6. batch[w] # {} => Current(w) \in 1 .. Len(log) /\ Message(w) = log[Current(w)] /\ Message(w) \in Msgs
  BY CurrentInBatch DEF Message
<1> HIDE DEF Good, SameIds, Kept, Moved
<1>7. ASSUME UNCHANGED streamVars, settled' = settled  PROVE Moved
  BY <1>7, StillCarries DEF streamVars, Moved
<1>8. ASSUME Deliver, settled' = settled  PROVE Moved
  BY <1>8, StreamType, DeliverFacts, StillCarries DEF Moved
<1>9. ASSUME NEW ids, XAckDel(ids), settled \subseteq settled', \A i \in ids : log[i] \in settled'
      PROVE  Moved
  BY <1>9, SettlingCarries DEF Moved
<1>10. ASSUME UNCHANGED hash  PROVE SameIds
  BY <1>10 DEF SameIds
<1>11. UNCHANGED ack \/ ack' = [ack EXCEPT ![w] = {}] => Kept
  BY <1>2 DEF Kept
\* One message changes its status, its count or its ErrorInfo.
<1>12. ASSUME NEW k \in Msgs, hash' = [hash EXCEPT ![k] = hash'[k]], hash'[k].id = hash[k].id
       PROVE  SameIds
  BY <1>2, <1>12 DEF SameIds
<1>13. ASSUME NEW ms, Complete(ms)  PROVE SameIds /\ settled' = settled \union ms
  <2>1. settled' = settled \union ms /\ SetStatus(ms, "Completed")
    BY <1>13 DEF Complete
  <2>2. SameIds
    BY <1>2, <2>1 DEF SetStatus, SameIds, Hash
  <2> QED BY <2>1, <2>2
<1>14. ASSUME AckExec(w), ack[w] # {}  PROVE Moved /\ SameIds
  <2>1. XAckDel({r.id : r \in ack[w]}) /\ Complete({r.msg : r \in ack[w]})
    BY <1>14 DEF AckExec
  <2>2. SameIds /\ settled' = settled \union {r.msg : r \in ack[w]}
    BY <1>13, <2>1
  <2>3. \A i \in {r.id : r \in ack[w]} : log[i] \in settled'
    BY <2>2 DEF OwnAck
  <2> QED BY <1>9, <2>1, <2>2, <2>3
<1>15. ASSUME SettleExec(w), batch[w] # {}  PROVE Moved /\ SameIds
  <2>1. XAckDel({Current(w)}) /\ Complete({Message(w)})
    BY <1>15 DEF SettleExec
  <2>2. SameIds /\ settled' = settled \union {Message(w)}
    BY <1>13, <2>1
  <2>3. \A i \in {Current(w)} : log[i] \in settled'
    BY <1>6, <1>15, <2>2
  <2> QED BY <1>9, <2>1, <2>2, <2>3
<1>16. UNCHANGED metaVars => settled' = settled /\ SameIds
  BY <1>10 DEF metaVars
<1>a. CASE Read(w)
  BY <1>a, <1>4, <1>8, <1>11, <1>16 DEF Read
<1>b. CASE ReadLost(w)
  BY <1>b, <1>4, <1>8, <1>11, <1>16 DEF ReadLost, consumerVars
<1>c. CASE ResolveError(w)
  BY <1>c, <1>4, <1>7, <1>11, <1>16 DEF ResolveError
<1>d. CASE BadPayload(w)
  BY <1>d, <1>4, <1>7, <1>11, <1>16 DEF BadPayload
<1>e. CASE Begin(w)
  <2>1. Message(w) \in Msgs /\ UNCHANGED streamVars /\ settled' = settled /\ UNCHANGED ack
    BY <1>e, <1>6 DEF Begin
  <2>2. SameIds
    BY <1>2, <1>e, <2>1, <1>12 DEF Begin, Hash
  <2> QED BY <2>1, <2>2, <1>4, <1>7, <1>11
<1>q. CASE BeginError(w)
  BY <1>q, <1>4, <1>7, <1>11, <1>16 DEF BeginError
<1>f. CASE AckResolve(w)
  <2>1. /\ UNCHANGED streamVars /\ UNCHANGED metaVars /\ wpc[w] \in {"exec", "error"}
        /\ \E ms \in SUBSET Ackable(w) : ack' = [ack EXCEPT ![w] = Resolved(w, ms)]
    BY <1>f DEF AckResolve
  <2>2. PICK ms \in SUBSET Ackable(w) : ack' = [ack EXCEPT ![w] = Resolved(w, ms)]
    BY <2>1
  <2>3. Current(w) \in 1 .. Len(log) /\ Message(w) = log[Current(w)] /\ Message(w) \in Msgs
    BY <2>1, <1>5, <1>6
  <2>4. ASSUME NEW r \in Resolved(w, ms)  PROVE r.id \in 1 .. Len(log) /\ log[r.id] = r.msg
    <3>1. PICK m \in ms : r = [msg |-> m, id |-> IF m = Message(w) THEN Current(w) ELSE hash[m].id]
      BY <2>4 DEF Resolved
    <3>2. r.id # 0 /\ m \in Msgs
      BY <2>3, <2>4 DEF Resolved, Ackable
    <3>3. CASE m = Message(w)
      BY <2>3, <3>1, <3>3
    <3>4. CASE m # Message(w)
      BY <3>1, <3>2, <3>4 DEF OwnHash
    <3> QED BY <3>3, <3>4
  <2>5. log' = log
    BY <2>1 DEF streamVars
  <2>6. OwnAck'
    BY <1>2, <2>2, <2>4, <2>5 DEF OwnAck
  <2> QED BY <2>1, <2>6, <1>7, <1>16 DEF Good
<1>g. CASE AckCommit(w)
  BY <1>g, <1>4, <1>11, <1>14 DEF AckCommit
<1>h. CASE AckError(w)
  BY <1>h, <1>4, <1>7, <1>11, <1>14, <1>16 DEF AckError
<1>i. CASE Return(w)
  BY <1>i, <1>4, <1>5, <1>7, <1>11, <1>15, <1>16 DEF Return
<1>j. CASE ReturnError(w)
  BY <1>j, <1>4, <1>5, <1>7, <1>11, <1>15, <1>16 DEF ReturnError
<1>k. CASE Throw(w)
  BY <1>k, <1>4, <1>7, <1>11, <1>16 DEF Throw
<1>l. CASE ReadAttempts(w)
  BY <1>l, <1>4, <1>7, <1>11, <1>16 DEF ReadAttempts
<1>m. CASE GiveUp(w)
  <2>1. /\ Message(w) \in Msgs /\ Message(w) = log[Current(w)]
        /\ XAckDel({Current(w)}) /\ settled' = settled \union {Message(w)} /\ UNCHANGED ack
    BY <1>m, <1>5, <1>6 DEF GiveUp
  <2>2. SameIds
    BY <1>2, <1>m, <2>1, <1>12 DEF GiveUp, Hash
  <2>3. Moved
    BY <2>1, <1>9
  <2> QED BY <2>1, <2>2, <2>3, <1>4, <1>11
<1>n. CASE Retry(w)
  <2>1. Message(w) \in Msgs /\ UNCHANGED streamVars /\ settled' = settled /\ UNCHANGED ack
    BY <1>n, <1>5, <1>6 DEF Retry
  <2>2. SameIds
    BY <1>2, <1>n, <2>1, <1>12 DEF Retry, Hash
  <2> QED BY <2>1, <2>2, <1>4, <1>7, <1>11
<1>o. CASE ErrorLost(w)
  BY <1>o, <1>4, <1>7, <1>11, <1>16 DEF ErrorLost
<1>p. CASE WorkerCrash(w)
  BY <1>p, <1>4, <1>7, <1>11, <1>16 DEF WorkerCrash
<1> QED
  BY <1>a, <1>b, <1>c, <1>d, <1>e, <1>f, <1>g, <1>h, <1>i, <1>j, <1>k, <1>l, <1>m,
     <1>n, <1>o, <1>p, <1>q
     DEF Consuming, WorkerStep, HandlerChoice, WorkerFault

(***************************************************************************)
(* The delicate step: a service deletes the entry it has published anew.   *)
(* The message keeps the entry Replaced speaks of, which is younger than   *)
(* the deleted one; so does any other service about to do the same.        *)
(***************************************************************************)
LEMMA RepublishCommitInv ==
    ASSUME TypeOK, Inv, NEW s \in Servers, Recovering(s), RepublishCommit(s)
    PROVE  Inv'
<1> USE DEF Inv
<1>1. claimed[s] # {}
  BY DEF RepublishCommit, TypeOK, TimeoutTypeOK
<1>2. PICK e \in 1 .. Len(log), k \in Msgs : e = Entry(s) /\ k = log[e]
  BY <1>1, EntryInClaimed
<1>3. /\ tpc[s] = "commit" /\ XAckDel({e}) /\ NextClaimed(s) /\ settled' = settled
      /\ hash' = [hash EXCEPT ![k].id = tnew[s], ![k].status = "Pending"]
      /\ UNCHANGED publisherVars /\ UNCHANGED consumerVars
  BY <1>2 DEF RepublishCommit, Recovering
<1>4. /\ log' = log /\ live' = live \ {e} /\ Len(log) \in Nat
      /\ Grows /\ \A m : Carriers(m)' = Carriers(m) \ {e} /\ (Sent(m)' <=> Sent(m))
  <2>1. log' = log /\ live' = live \ {e} /\ Len(log) \in Nat
    BY <1>3, StreamType, XAckDelFacts
  <2> QED BY <2>1 DEF Grows, Carriers, Sent
<1>5. tnew[s] \in 1 .. Len(log) /\ log[tnew[s]] = k /\ e < tnew[s]
  BY <1>2, <1>3 DEF OwnNew
\* The entry that is left.
<1>6. ASSUME k \notin settled
      PROVE  \E c \in Carriers(k)' : c >= tnew[s] /\ c > e
  <2>1. PICK c \in Carriers(k) : c >= tnew[s]
    BY <1>2, <1>3, <1>6 DEF Replaced
  <2>2. c \in 1 .. Len(log)
    BY StreamType DEF Carriers, StreamOK
  <2>3. c > e
    BY <1>4, <1>5, <2>1, <2>2
  <2> QED BY <1>2, <1>4, <2>1, <2>3
<1>7. NoLoss'
  <2> SUFFICES ASSUME NEW m \in Msgs, Sent(m), m \notin settled
               PROVE  Carriers(m)' # {}
    BY <1>3, <1>4 DEF NoLoss
  <2>1. CASE m = k
    BY <1>6, <2>1
  <2>2. CASE m # k
    <3>1. PICK i \in Carriers(m) : TRUE
      BY DEF NoLoss
    <3>2. i # e
      BY <1>2, <2>2 DEF Carriers
    <3> QED BY <1>4, <3>1, <3>2
  <2> QED BY <2>1, <2>2
<1>8. OwnHash'
  <2>1. hash \in [Msgs -> Hash]
    BY DEF TypeOK, StoreTypeOK
  <2>2. \A m \in Msgs : hash'[m].id = IF m = k THEN tnew[s] ELSE hash[m].id
    BY <1>3, <2>1 DEF Hash
  <2> QED BY <1>4, <1>5, <2>2 DEF OwnHash
<1>9. OwnPub' /\ OwnAck'
  BY <1>3, <1>4, OwnPubKept, OwnAckKept DEF consumerVars
<1>10. ASSUME NEW t \in Servers  PROVE OwnNewFor(t)' /\ ReplacedFor(t)'
  <2>1. /\ tpc \in [Servers -> TaskStates] /\ tnew \in [Servers -> 0 .. Len(log)]
        /\ claimed \in [Servers -> SUBSET (1 .. lastDelivered)]
    BY DEF TypeOK, TimeoutTypeOK
  <2>2. CASE t = s
    <3>1. tpc'[s] # "commit"
      BY <1>3, <2>1 DEF NextClaimed, TGoto
    <3> QED BY <2>2, <3>1 DEF OwnNewFor, ReplacedFor
  <2>3. CASE t # s
    <3>1. tpc'[t] = tpc[t] /\ claimed'[t] = claimed[t] /\ tnew'[t] = tnew[t]
      BY <1>3, <2>1, <2>3 DEF NextClaimed, TGoto
    <3> SUFFICES ASSUME tpc[t] = "commit"
                 PROVE  OwnNewFor(t)' /\ ReplacedFor(t)'
      BY <3>1 DEF OwnNewFor, ReplacedFor
    <3>2. Entry(t)' = Entry(t)
      BY <3>1 DEF Entry
    <3>3. claimed[t] # {}
      BY DEF TypeOK, TimeoutTypeOK
    <3>4. PICK et \in 1 .. Len(log), kt \in Msgs : et = Entry(t) /\ kt = log[et]
      BY <3>3, EntryInClaimed
    <3>5. tnew[t] \in 1 .. Len(log) /\ log[tnew[t]] = kt /\ et < tnew[t]
      BY <3>4 DEF OwnNew
    <3>6. OwnNewFor(t)'
      BY <1>4, <3>1, <3>2, <3>4, <3>5 DEF OwnNewFor
    <3>7. ReplacedFor(t)'
      <4> SUFFICES ASSUME kt \notin settled
                   PROVE  \E c \in Carriers(kt)' : c >= tnew[t]
        BY <1>3, <1>4, <3>1, <3>2, <3>4 DEF ReplacedFor
      <4>1. PICK c \in Carriers(kt) : c >= tnew[t]
        BY <3>4 DEF Replaced
      <4>2. CASE c # e
        BY <1>4, <4>1, <4>2
      <4>3. CASE c = e
        <5>1. kt = k
          BY <1>2, <4>3 DEF Carriers
        <5>2. PICK d \in Carriers(k)' : d >= tnew[s] /\ d > e
          BY <1>6, <5>1
        <5>3. d \in 1 .. Len(log)
          BY <1>4, StreamType DEF Carriers, StreamOK
        <5>4. d >= tnew[t]
          BY <1>4, <3>5, <4>1, <4>3, <5>2, <5>3
        <5> QED BY <5>1, <5>2, <5>4
      <4> QED BY <4>2, <4>3
    <3> QED BY <3>6, <3>7
  <2> QED BY <2>2, <2>3
<1> QED BY <1>7, <1>8, <1>9, <1>10, ServicesJoined

(***************************************************************************)
(* The other steps of a service add entries, or delete those of messages   *)
(* they settle.                                                            *)
(***************************************************************************)
LEMMA RecoveringInv ==
    ASSUME TypeOK, Inv, NEW s \in Servers, Recovering(s), Len(log') \in Nat
    PROVE  Inv'
<1> SUFFICES ASSUME ~RepublishCommit(s)  PROVE Inv'
  BY RepublishCommitInv
<1> USE DEF Inv
<1>1. UNCHANGED publisherVars /\ UNCHANGED consumerVars
  BY DEF Recovering
<1>2. /\ hash \in [Msgs -> Hash]
      /\ tpc \in [Servers -> TaskStates] /\ tnew \in [Servers -> 0 .. Len(log)]
      /\ cursor \in [Servers -> Nat] /\ claimed \in [Servers -> SUBSET (1 .. lastDelivered)]
  BY DEF TypeOK, StoreTypeOK, TimeoutTypeOK
<1> DEFINE SameIds == \A k \in Msgs : hash'[k].id = hash[k].id
           Moved   == Grows /\ Carried
           Mine    == OwnNewFor(s)' /\ ReplacedFor(s)'
           Others  == \A t \in Servers \ {s} :
                        tpc'[t] = tpc[t] /\ claimed'[t] = claimed[t] /\ tnew'[t] = tnew[t]
           Good    == Moved /\ SameIds /\ Mine /\ Others
<1>3. Good => Inv'
  <2> SUFFICES ASSUME Good  PROVE Inv'
    OBVIOUS
  <2>1. ASSUME NEW t \in Servers  PROVE OwnNewFor(t)' /\ ReplacedFor(t)'
    <3>1. CASE t = s
      BY <3>1
    <3>2. CASE t # s
      BY <3>2, ServicesJoined, ServiceKept
    <3> QED BY <3>1, <3>2
  <2>2. NoLoss'
    BY NoLossKept
  <2>3. OwnHash' /\ OwnPub'
    BY <1>1, OwnHashKept, OwnPubKept
  <2>4. OwnAck'
    BY <1>1, OwnAckKept DEF consumerVars
  <2> QED BY <2>1, <2>2, <2>3, <2>4, ServicesJoined
<1> SUFFICES Good
  BY <1>3
<1>4. tpc[s] \in {"claim", "entry", "giveup", "republish", "commit"} =>
        /\ claimed[s] # {} /\ Entry(s) \in 1 .. Len(log) /\ log[Entry(s)] \in Msgs
  BY EntryInClaimed DEF TypeOK, TimeoutTypeOK
<1> HIDE DEF Good, SameIds, Moved, Mine, Others
<1>5. ASSUME UNCHANGED streamVars, settled' = settled  PROVE Moved
  BY <1>5, StillCarries DEF streamVars, Moved
<1>6. UNCHANGED metaVars => settled' = settled /\ SameIds
  BY DEF metaVars, SameIds
\* Only Republish leads to "commit".
<1>7. ASSUME NEW pc, TGoto(s, pc), pc # "commit"
      PROVE  Mine /\ (UNCHANGED <<claimed, tnew>> => Others)
  BY <1>2, <1>7 DEF TGoto, Mine, Others, OwnNewFor, ReplacedFor
<1>8. ASSUME Drop(s), NEW pc, TGoto(s, pc), pc # "commit"  PROVE Good
  <2>1. Others /\ UNCHANGED streamVars /\ UNCHANGED metaVars
    BY <1>2, <1>8 DEF Drop, TGoto, Others
  <2> QED BY <2>1, <1>5, <1>6, <1>7, <1>8 DEF Good
<1>a. CASE AcquireLock(s)
  BY <1>a, <1>5, <1>6, <1>7 DEF AcquireLock, Good
<1>b. CASE ScanPage(s)
  <2>1. /\ UNCHANGED streamVars /\ UNCHANGED metaVars
        /\ \E pc \in {"unlock", "scan", "claim"} : TGoto(s, pc)
    BY <1>b DEF ScanPage
  <2>2. tnew' = tnew /\ \A t \in Servers \ {s} : claimed'[t] = claimed[t]
    BY <1>b, <1>2 DEF ScanPage
  <2>3. Others
    BY <1>2, <2>1, <2>2 DEF TGoto, Others
  <2> QED BY <2>1, <2>3, <1>5, <1>6, <1>7 DEF Good
<1>c. CASE Claim(s)
  <2>1. /\ log' = log /\ live' = live /\ UNCHANGED metaVars /\ tnew' = tnew
        /\ \E pc \in {"scan", "entry"} : TGoto(s, pc)
        /\ \A t \in Servers \ {s} : claimed'[t] = claimed[t]
    BY <1>c, <1>2 DEF Claim
  <2>2. Others
    BY <1>2, <2>1 DEF TGoto, Others
  <2>3. Moved
    BY <2>1, <1>6, StillCarries DEF Moved
  <2> QED BY <2>1, <2>2, <2>3, <1>6, <1>7 DEF Good
<1>d. CASE Inspect(s)
  <2>1. /\ UNCHANGED streamVars /\ UNCHANGED metaVars /\ UNCHANGED <<claimed, tnew>>
        /\ \E pc \in {"giveup", "republish"} : TGoto(s, pc)
    BY <1>d DEF Inspect
  <2> QED BY <2>1, <1>5, <1>6, <1>7 DEF Good
<1>e. CASE FailCommit(s)
  <2>1. /\ log[Entry(s)] \in Msgs /\ XAckDel({Entry(s)}) /\ settled' = settled \union {log[Entry(s)]}
        /\ SetStatus({log[Entry(s)]}, "Failed") /\ NextClaimed(s)
    BY <1>e, <1>4 DEF FailCommit
  <2>2. Moved
    BY <2>1, SettlingCarries DEF Moved
  <2>3. SameIds
    BY <1>2, <2>1 DEF SetStatus, SameIds, Hash
  <2>4. Others
    BY <1>2, <2>1 DEF NextClaimed, TGoto, Others
  <2>5. \E pc \in {"scan", "entry"} : TGoto(s, pc)
    BY <2>1 DEF NextClaimed
  <2> QED BY <2>2, <2>3, <2>4, <2>5, <1>7 DEF Good
<1>f. CASE Republish(s)
  <2>1. /\ tpc[s] = "republish" /\ UNCHANGED metaVars /\ claimed' = claimed
        /\ tpc' = [tpc EXCEPT ![s] = "commit"] /\ tnew' = [tnew EXCEPT ![s] = Len(log) + 1]
    BY <1>f DEF Republish, TGoto
  <2>2. PICK e \in 1 .. Len(log), k \in Msgs : e = Entry(s) /\ k = log[e]
    BY <1>4, <2>1
  <2>3. XAdd(k)
    BY <1>f, <2>2 DEF Republish
  <2>4. /\ Moved /\ Len(log) + 1 \in Carriers(k)' /\ Len(log') = Len(log) + 1
        /\ log'[Len(log) + 1] = k /\ log'[e] = k /\ Len(log) \in Nat
    BY <2>1, <2>2, <2>3, <1>6, XAddCarries, XAddFacts, StreamType DEF Moved
  <2>5. tpc'[s] = "commit" /\ tnew'[s] = Len(log) + 1 /\ Entry(s)' = e
    BY <1>2, <2>1, <2>2 DEF Entry
  <2>6. OwnNewFor(s)'
    BY <2>2, <2>4, <2>5 DEF OwnNewFor
  <2>7. ReplacedFor(s)'
    BY <2>4, <2>5 DEF ReplacedFor
  <2>8. Others
    BY <1>2, <2>1 DEF Others
  <2> QED BY <2>1, <2>4, <2>6, <2>7, <2>8, <1>6 DEF Good, Mine
<1>g. CASE Unlock(s)
  <2>1. UNCHANGED streamVars /\ UNCHANGED metaVars /\ UNCHANGED <<claimed, tnew>> /\ TGoto(s, "lock")
    BY <1>g DEF Unlock
  <2> QED BY <2>1, <1>5, <1>6, <1>7 DEF Good
<1>h. CASE TimeoutError(s)
  BY <1>h, <1>8 DEF TimeoutError
<1>i. CASE TimeoutCrash(s)
  BY <1>i, <1>8 DEF TimeoutCrash
<1> QED
  BY <1>a, <1>b, <1>c, <1>d, <1>e, <1>f, <1>g, <1>h, <1>i
     DEF Recovering, TimeoutStep, TimeoutFault

-----------------------------------------------------------------------------
(* The theorems *)

LEMMA InitInv == Init => Inv
<1> SUFFICES ASSUME Init  PROVE Inv
  OBVIOUS
<1>1. Len(log) = 0
  BY EmptySeq DEF Init, InitStore
<1>2. OwnHash /\ OwnPub /\ OwnAck
  BY DEF Init, InitStore, InitPublisher, InitConsumer, NoHash, OwnHash, OwnPub, OwnAck
<1>3. OwnNew /\ Replaced
  BY DEF Init, InitTimeout, OwnNew, Replaced
<1>4. NoLoss
  BY <1>1 DEF NoLoss, Sent
<1> QED BY <1>2, <1>3, <1>4 DEF Inv

LEMMA IInvParts == IInv <=> TypeOK /\ Inv
BY DEF IInv, Inv

(***************************************************************************)
(* IInv is inductive.                                                      *)
(***************************************************************************)
LEMMA NextInv == IInv /\ [Next]_vars => IInv'
<1> SUFFICES ASSUME TypeOK, Inv, [Next]_vars  PROVE Inv'
  BY IInvParts, NextType DEF IInv, Inv
<1>1. Len(log') \in Nat
  BY NextType, StoreParts, LenProperties DEF TypeOK, StreamOK
<1>2. ASSUME log' = log, live' = live, settled' = settled, hash' = hash, UNCHANGED publisherVars,
             UNCHANGED consumerVars, tpc' = tpc, claimed' = claimed, tnew' = tnew
      PROVE  Inv'
  <2>1. Grows /\ Carried
    BY <1>2, StillCarries
  <2>2. OwnHash' /\ OwnPub' /\ OwnAck' /\ NoLoss'
    BY <1>1, <1>2, <2>1, NoLossKept, OwnHashKept, OwnPubKept, OwnAckKept DEF Inv, consumerVars
  <2>3. ASSUME NEW s \in Servers  PROVE OwnNewFor(s)' /\ ReplacedFor(s)'
    BY <1>1, <1>2, <2>1, ServicesJoined, ServiceKept DEF Inv
  <2> QED BY <2>2, <2>3, ServicesJoined DEF Inv
<1>a. ASSUME NEW m \in Msgs, Publishing(m)  PROVE Inv'
  BY <1>1, <1>a, PublishingInv
<1>b. ASSUME NEW w \in Workers, Consuming(w)  PROVE Inv'
  BY <1>1, <1>b, ConsumingInv
<1>c. ASSUME NEW s \in Servers, Recovering(s)  PROVE Inv'
  BY <1>1, <1>c, RecoveringInv
<1>d. ASSUME NEW i \in pel, Elapse(i), Passing  PROVE Inv'
  BY <1>2, <1>d DEF Passing, Elapse, metaVars, timeoutVars
<1>e. CASE Passing /\ \E t \in Servers : LockExpires(t)
  BY <1>2, <1>e DEF Passing, LockExpires, streamVars, metaVars
<1>f. CASE UNCHANGED vars
  BY <1>2, <1>f DEF vars, streamVars, metaVars, timeoutVars
<1> QED BY <1>a, <1>b, <1>c, <1>d, <1>e, <1>f DEF Next, Passing

THEOREM Inductive == Spec => []IInv
<1>1. Init => IInv
  BY InitType, InitInv, IInvParts
<1> QED BY <1>1, NextInv, PTL DEF Spec

(***************************************************************************)
(* At-least-once: a message that reached the stream keeps an entry there   *)
(* until its outcome is recorded, for any number of workers and servers    *)
(* and any faults.                                                         *)
(***************************************************************************)
THEOREM NothingLost == Spec => []NoLoss
<1>1. IInv => NoLoss
  BY DEF IInv
<1> QED BY <1>1, Inductive, PTL

(***************************************************************************)
(* The field Id and the ids AckAsync resolved name the message's own       *)
(* entries, however late they were written or read.                        *)
(***************************************************************************)
THEOREM OwnIds == Spec => []EntryIdsAreOwn
<1>1. IInv => EntryIdsAreOwn
  BY DEF IInv, OwnHash, OwnAck, EntryIdsAreOwn
<1> QED BY <1>1, Inductive, PTL

-----------------------------------------------------------------------------
(* Every step, as seen from the stream and the recorded outcomes *)

Quiet == log' = log /\ live' = live /\ lastDelivered' = lastDelivered /\ pel' = pel

\* The outcome of the messages ms is recorded, their entries ids deleted.
SettleEntries(ids, ms) ==
    /\ XAckDel(ids) /\ settled' = settled \union ms
    /\ ms # {} /\ \A m \in ms : Sent(m)
    /\ \A i \in ids : log[i] \in ms

StreamStep ==
    \/ Quiet /\ settled' = settled
    \/ Deliver /\ settled' = settled
    \/ \E m \in Msgs : XAdd(m) /\ settled' = settled
    \/ \E e \in 1 .. Len(log) : XAckDel({e}) /\ settled' = settled
    \/ \E ids \in SUBSET (1 .. Len(log)), ms \in SUBSET Msgs : SettleEntries(ids, ms)

LEMMA PublishingStream ==
    ASSUME TypeOK, NEW m \in Msgs, Publishing(m)
    PROVE  StreamStep
<1>1. UNCHANGED streamVars => Quiet
  BY DEF streamVars, Quiet
<1>2. CASE PublishXAdd(m)
  BY <1>2 DEF PublishXAdd, metaVars, StreamStep
<1>3. CASE PublishXAddError(m)
  BY <1>1, <1>3 DEF PublishXAddError, metaVars, StreamStep
<1>4. CASE PublishMeta(m) \/ PublishFinish(m) \/ PublishCleanup(m)
  BY <1>1, <1>4 DEF PublishMeta, PublishFinish, PublishCleanup, WriteMeta, WriteId, StreamStep
<1>5. CASE PublishMetaError(m) \/ PublishFinishError(m) \/ PublisherCrash(m)
  BY <1>1, <1>5 DEF PublishMetaError, PublishFinishError, PublisherCrash, WriteMeta, WriteId,
                    metaVars, StreamStep
<1> QED BY <1>2, <1>3, <1>4, <1>5 DEF Publishing, PublisherStep, PublisherFault

LEMMA ConsumingStream ==
    ASSUME TypeOK, OwnAck, NEW w \in Workers, Consuming(w)
    PROVE  StreamStep
<1>1. UNCHANGED streamVars => Quiet
  BY DEF streamVars, Quiet
<1>2. UNCHANGED metaVars => settled' = settled
  BY DEF metaVars
<1>3. wpc[w] # "loop" => /\ Current(w) \in 1 .. Len(log)
                         /\ Message(w) = log[Current(w)] /\ Message(w) \in Msgs
  BY CurrentInBatch DEF TypeOK, ConsumerTypeOK, Message
<1>4. ASSUME SettleExec(w), wpc[w] # "loop"
      PROVE  SettleEntries({Current(w)}, {Message(w)})
  <2>1. XAckDel({Current(w)}) /\ settled' = settled \union {Message(w)}
    BY <1>4 DEF SettleExec, Complete
  <2>2. Sent(Message(w))
    BY <1>3, <1>4 DEF Sent
  <2> QED BY <1>3, <1>4, <2>1, <2>2 DEF SettleEntries
<1>5. ASSUME AckExec(w), ack[w] # {}
      PROVE  \E ids \in SUBSET (1 .. Len(log)), ms \in SUBSET Msgs : SettleEntries(ids, ms)
  <2> DEFINE ids == {r.id : r \in ack[w]}
             ms  == {r.msg : r \in ack[w]}
  <2>1. \A r \in ack[w] : r.msg \in Msgs /\ r.id \in 1 .. Len(log) /\ log[r.id] = r.msg
    BY DEF OwnAck, TypeOK, ConsumerTypeOK
  <2>2. XAckDel(ids) /\ settled' = settled \union ms
    BY <1>5 DEF AckExec, Complete
  <2>3. ids \in SUBSET (1 .. Len(log)) /\ ms \in SUBSET Msgs /\ ms # {}
    BY <1>5, <2>1
  <2>4. (\A m \in ms : Sent(m)) /\ (\A i \in ids : log[i] \in ms)
    BY <2>1 DEF Sent
  <2> HIDE DEF ids, ms
  <2> QED BY <2>2, <2>3, <2>4 DEF SettleEntries
<1>6. ASSUME SettleEntries({Current(w)}, {Message(w)}), wpc[w] # "loop"
      PROVE  StreamStep
  BY <1>3, <1>6 DEF StreamStep
<1>a. CASE Read(w) \/ ReadLost(w)
  BY <1>2, <1>a DEF Read, ReadLost, StreamStep
<1>b. CASE \/ ResolveError(w) \/ BadPayload(w) \/ Begin(w) \/ BeginError(w)
           \/ AckResolve(w) \/ Throw(w) \/ ReadAttempts(w) \/ Retry(w)
           \/ ErrorLost(w) \/ WorkerCrash(w)
  BY <1>1, <1>2, <1>b DEF ResolveError, BadPayload, Begin, BeginError, AckResolve, Throw,
                          ReadAttempts, Retry, ErrorLost, WorkerCrash, StreamStep
<1>c. CASE AckCommit(w) \/ AckError(w)
  BY <1>1, <1>2, <1>5, <1>c DEF AckCommit, AckError, StreamStep
<1>d. CASE Return(w) \/ ReturnError(w)
  BY <1>1, <1>2, <1>4, <1>6, <1>d DEF Return, ReturnError, StreamStep
<1>e. CASE GiveUp(w)
  <2>1. wpc[w] # "loop" /\ XAckDel({Current(w)}) /\ settled' = settled \union {Message(w)}
    BY <1>e DEF GiveUp
  <2>2. Sent(Message(w))
    BY <1>3, <2>1 DEF Sent
  <2>3. SettleEntries({Current(w)}, {Message(w)})
    BY <1>3, <2>1, <2>2 DEF SettleEntries
  <2> QED BY <1>6, <2>1, <2>3
<1> QED BY <1>a, <1>b, <1>c, <1>d, <1>e DEF Consuming, WorkerStep, HandlerChoice, WorkerFault

LEMMA RecoveringStream ==
    ASSUME TypeOK, NEW s \in Servers, Recovering(s)
    PROVE  StreamStep
<1>1. UNCHANGED streamVars => Quiet
  BY DEF streamVars, Quiet
<1>2. UNCHANGED metaVars => settled' = settled
  BY DEF metaVars
<1>3. tpc[s] \in {"giveup", "republish", "commit"} =>
         Entry(s) \in 1 .. Len(log) /\ log[Entry(s)] \in Msgs
  BY EntryInClaimed DEF TypeOK, TimeoutTypeOK
<1>4. CASE AcquireLock(s) \/ ScanPage(s) \/ Inspect(s) \/ Unlock(s)
  BY <1>1, <1>2, <1>4 DEF AcquireLock, ScanPage, Inspect, Unlock, StreamStep
<1>5. CASE Claim(s)
  BY <1>2, <1>5 DEF Claim, Quiet, StreamStep
<1>6. CASE TimeoutError(s) \/ TimeoutCrash(s)
  BY <1>1, <1>2, <1>6 DEF TimeoutError, TimeoutCrash, Drop, StreamStep
<1>7. CASE Republish(s)
  BY <1>2, <1>3, <1>7 DEF Republish, StreamStep
<1>8. CASE RepublishCommit(s)
  BY <1>3, <1>8 DEF RepublishCommit, StreamStep
<1>9. CASE FailCommit(s)
  <2>1. /\ Entry(s) \in 1 .. Len(log) /\ log[Entry(s)] \in Msgs
        /\ XAckDel({Entry(s)}) /\ settled' = settled \union {log[Entry(s)]}
    BY <1>3, <1>9 DEF FailCommit
  <2>2. SettleEntries({Entry(s)}, {log[Entry(s)]})
    BY <2>1 DEF SettleEntries, Sent
  <2> QED BY <2>1, <2>2 DEF StreamStep
<1> QED BY <1>4, <1>5, <1>6, <1>7, <1>8, <1>9 DEF Recovering, TimeoutStep, TimeoutFault

LEMMA NextStream == IInv /\ [Next]_vars => StreamStep
<1> SUFFICES ASSUME TypeOK, OwnAck, [Next]_vars PROVE StreamStep
  BY DEF IInv
<1>1. ASSUME NEW m \in Msgs, Publishing(m) PROVE StreamStep
  BY <1>1, PublishingStream
<1>2. ASSUME NEW w \in Workers, Consuming(w) PROVE StreamStep
  BY <1>2, ConsumingStream
<1>3. ASSUME NEW s \in Servers, Recovering(s) PROVE StreamStep
  BY <1>3, RecoveringStream
<1>4. CASE Passing /\ \E i \in pel : Elapse(i)
  BY <1>4 DEF Passing, Elapse, metaVars, Quiet, StreamStep
<1>5. CASE Passing /\ \E t \in Servers : LockExpires(t)
  BY <1>5 DEF Passing, LockExpires, metaVars, streamVars, Quiet, StreamStep
<1>6. CASE UNCHANGED vars
  BY <1>6 DEF vars, metaVars, streamVars, Quiet, StreamStep
<1> QED BY <1>1, <1>2, <1>3, <1>4, <1>5, <1>6 DEF Next, Passing

\* The log only grows.
LEMMA StreamGrows ==
    ASSUME TypeOK, StreamStep
    PROVE  Grows
<1>1. StreamOK /\ Len(log) \in Nat
  BY StreamType
<1>2. log' = log => Grows
  BY <1>1 DEF Grows
<1>3. ASSUME NEW m \in Msgs, XAdd(m)  PROVE Grows
  BY <1>1, <1>3, XAddFacts DEF Grows
<1> QED BY <1>2, <1>3 DEF StreamStep, SettleEntries, Quiet, Deliver, XAckDel

-----------------------------------------------------------------------------
(* The refinement *)

LEMMA InitAccepted == Init => Queue!Init
<1> SUFFICES ASSUME Init PROVE Queue!Init
  OBVIOUS
<1>1. Len(log) = 0 /\ live = {} /\ settled = {}
  BY EmptySeq DEF Init, InitStore
<1> QED BY <1>1 DEF Sent, Carriers, Queue!Init

\* Without a new entry, no message becomes accepted.
LEMMA AcceptedKept ==
    ASSUME log' = log
    PROVE  {m \in Msgs : Sent(m)}' = {m \in Msgs : Sent(m)}
BY DEF Sent

(***************************************************************************)
(* An XADD accepts a message; one that has lost its entries was settled,   *)
(* and is queued once more.                                                *)
(***************************************************************************)
LEMMA XAddRefines ==
    ASSUME TypeOK, NoLoss, NEW m \in Msgs, XAdd(m), settled' = settled
    PROVE  [Queue!Next]_(Queue!qvars)
<1> DEFINE accepted == {k \in Msgs : Sent(k)}
           queued   == {k \in Msgs : Carriers(k) # {}}
<1>1. /\ StreamOK /\ Len(log) \in Nat /\ Len(log') = Len(log) + 1
      /\ \A i \in 1 .. Len(log) : log'[i] = log[i]
      /\ log'[Len(log) + 1] = m
      /\ live' = live \union {Len(log) + 1}
  BY StreamType, XAddFacts
<1>2. 1 .. Len(log') = (1 .. Len(log)) \union {Len(log) + 1} /\ live \subseteq 1 .. Len(log)
  BY <1>1 DEF StreamOK
<1>3. accepted' = accepted \union {m}
  BY <1>1, <1>2 DEF Sent
<1>4. \A k \in Msgs : Carriers(k)' = IF k = m THEN Carriers(k) \union {Len(log) + 1}
                                              ELSE Carriers(k)
  BY <1>1, <1>2 DEF Carriers
<1>5. queued' = queued \union {m}
  BY <1>4
<1>6. m \in accepted => m \in settled \/ m \in queued
  BY DEF NoLoss
<1>7. CASE m \notin accepted
  <2>1. Queue!Accept(m)
    BY <1>3, <1>5, <1>7 DEF Queue!Accept
  <2> QED BY <2>1 DEF Queue!Next
<1>8. CASE m \in accepted /\ m \notin queued
  <2>1. Queue!Redeliver(m)
    BY <1>3, <1>5, <1>6, <1>8 DEF Queue!Redeliver
  <2> QED BY <2>1 DEF Queue!Next
<1>9. CASE m \in accepted /\ m \in queued
  BY <1>3, <1>5, <1>9 DEF Queue!qvars
<1> QED BY <1>7, <1>8, <1>9

(***************************************************************************)
(* Deleting one entry without recording an outcome, as the republish does, *)
(* makes a message leave the queue only if it was settled before.          *)
(***************************************************************************)
LEMMA DeletionRefines ==
    ASSUME TypeOK, NoLoss', NEW e \in 1 .. Len(log), XAckDel({e}), settled' = settled
    PROVE  [Queue!Next]_(Queue!qvars)
<1> DEFINE accepted == {k \in Msgs : Sent(k)}
           queued   == {k \in Msgs : Carriers(k) # {}}
<1>1. log' = log /\ live' = live \ {e} /\ log[e] \in Msgs
  BY StreamType DEF XAckDel, StreamOK
<1>2. accepted' = accepted
  BY <1>1, AcceptedKept
<1>3. \A k \in Msgs : Carriers(k)' = IF k = log[e] THEN Carriers(k) \ {e} ELSE Carriers(k)
  BY <1>1 DEF Carriers
<1>4. queued' = queued \/ (log[e] \in queued /\ queued' = queued \ {log[e]})
  BY <1>1, <1>3
<1>5. CASE queued' = queued
  BY <1>2, <1>5 DEF Queue!qvars
<1>6. CASE log[e] \in queued /\ queued' = queued \ {log[e]}
  <2>1. Sent(log[e])' /\ Carriers(log[e])' = {}
    BY <1>1, <1>6 DEF Sent
  <2>2. log[e] \in settled
    BY <1>1, <2>1 DEF NoLoss
  <2>3. Queue!Retire(log[e])
    BY <1>2, <1>6, <2>2 DEF Queue!Retire
  <2> QED BY <1>1, <2>3 DEF Queue!Next
<1> QED BY <1>4, <1>5, <1>6

(***************************************************************************)
(* An acknowledgement settles its messages and deletes none but their      *)
(* entries.                                                                *)
(***************************************************************************)
LEMMA SettlingRefines ==
    ASSUME NEW ids \in SUBSET (1 .. Len(log)), NEW ms \in SUBSET Msgs, SettleEntries(ids, ms)
    PROVE  Queue!Next
<1> DEFINE accepted == {k \in Msgs : Sent(k)}
           queued   == {k \in Msgs : Carriers(k) # {}}
<1>1. /\ log' = log /\ live' = live \ ids /\ settled' = settled \union ms
      /\ ms # {} /\ (\A m \in ms : Sent(m)) /\ \A i \in ids : log[i] \in ms
  BY DEF SettleEntries, XAckDel
<1>2. accepted' = accepted /\ ms \subseteq accepted
  BY <1>1, AcceptedKept
<1>3. \A k \in Msgs : /\ Carriers(k)' \subseteq Carriers(k)
                      /\ k \notin ms => Carriers(k)' = Carriers(k)
  BY <1>1 DEF Carriers
<1>4. queued \ ms \subseteq queued' /\ queued' \subseteq queued
  BY <1>3
<1>5. Queue!Settle(ms)
  BY <1>1, <1>2, <1>4 DEF Queue!Settle
<1> QED BY <1>5 DEF Queue!Next

LEMMA NextRefines ==
    ASSUME IInv, IInv', StreamStep
    PROVE  [Queue!Next]_(Queue!qvars)
<1>1. TypeOK /\ NoLoss /\ NoLoss'
  BY DEF IInv
<1>2. ASSUME log' = log, live' = live, settled' = settled
      PROVE  UNCHANGED Queue!qvars
  BY <1>2 DEF Queue!qvars, Sent, Carriers
<1>3. CASE Quiet /\ settled' = settled
  BY <1>2, <1>3 DEF Quiet
<1>4. CASE Deliver /\ settled' = settled
  BY <1>2, <1>4 DEF Deliver
<1> QED BY <1>1, <1>3, <1>4, XAddRefines, DeletionRefines, SettlingRefines DEF StreamStep

(***************************************************************************)
(* A queue of Yarkool.RedisMQ implements AtLeastOnceQueue: a message it    *)
(* has accepted is queued until its outcome is recorded, whatever the      *)
(* number of workers and servers, their interleaving and their faults.     *)
(***************************************************************************)
THEOREM Implements == Spec => AtLeastOnce
<1>1. IInv /\ IInv' /\ StreamStep => [Queue!Next]_(Queue!qvars)
  BY NextRefines
<1> QED BY <1>1, InitAccepted, Inductive, NextStream, PTL DEF Spec, AtLeastOnce, Queue!Spec

-----------------------------------------------------------------------------
(* What was delivered and not deleted is pending *)

(***************************************************************************)
(* XREADGROUP hands out every entry up to the new last-delivered-id: those *)
(* before a delivered entry are fewer than PrefetchCount, and those before *)
(* an earlier entry fewer still.                                           *)
(***************************************************************************)
LEMMA NoGap ==
    ASSUME StreamOK, NEW last \in NextBatch(Prefetch), NEW j \in live,
           lastDelivered < j, j <= last
    PROVE  j \in NextBatch(Prefetch)
<1> DEFINE Before(i) == {k \in Undelivered : k < i}
<1>1. Undelivered \subseteq 1 .. Len(log) /\ Len(log) \in Nat
  BY LogLength DEF Undelivered, StreamOK
<1>2. last \in Undelivered /\ Cardinality(Before(last)) < Prefetch
  BY DEF NextBatch
<1>3. j \in Undelivered /\ Before(j) \in SUBSET Before(last)
  BY <1>1, <1>2 DEF Undelivered
<1>4. IsFiniteSet(1 .. Len(log)) /\ Before(last) \in SUBSET (1 .. Len(log))
  <2>1. 1 \in Int /\ Len(log) \in Int
    BY <1>1
  <2>2. IsFiniteSet(1 .. Len(log))
    BY <2>1, FS_Interval
  <2> QED BY <1>1, <2>2
<1>5. IsFiniteSet(Before(last))
  BY <1>4, FS_Subset
<1>6. IsFiniteSet(Before(j)) /\ Cardinality(Before(j)) <= Cardinality(Before(last))
  BY <1>3, <1>5, FS_Subset
<1>7. Cardinality(Before(j)) \in Nat /\ Cardinality(Before(last)) \in Nat /\ Prefetch \in Nat
  BY <1>5, <1>6, FS_CardinalityType, ConsumerAssumption
<1>8. Cardinality(Before(j)) < Prefetch
  BY <1>2, <1>6, <1>7
<1> QED BY <1>3, <1>8 DEF NextBatch

LEMMA DeliverPending ==
    ASSUME StreamOK, DeliveredIsPending, Deliver
    PROVE  DeliveredIsPending'
<1>1. PICK last \in NextBatch(Prefetch) :
         /\ \A i \in NextBatch(Prefetch) : i <= last
         /\ lastDelivered' = last
  BY DEF Deliver
<1>2. pel' = pel \union NextBatch(Prefetch) /\ live' = live
  BY DEF Deliver
<1>3. NextBatch(Prefetch) = {i \in live : lastDelivered < i /\ i <= last}
  BY <1>1, NoGap DEF NextBatch, Undelivered
<1>4. lastDelivered \in Nat /\ live \subseteq Nat
  BY LogLength DEF StreamOK
<1>a. last \in Nat /\ lastDelivered <= last
  <2>1. last \in live /\ lastDelivered < last
    BY <1>1, <1>3
  <2> QED BY <1>4, <2>1
<1>5. {i \in live : i <= last} = {i \in live : i <= lastDelivered}
                                    \union {i \in live : lastDelivered < i /\ i <= last}
  <2>1. \A i \in live : i <= last <=> i <= lastDelivered \/ (lastDelivered < i /\ i <= last)
    BY <1>4, <1>a
  <2> QED BY <2>1
<1> QED BY <1>1, <1>2, <1>3, <1>5 DEF DeliveredIsPending

LEMMA StepPending ==
    ASSUME TypeOK, DeliveredIsPending, StreamStep
    PROVE  DeliveredIsPending'
<1>1. StreamOK /\ Len(log) \in Nat /\ lastDelivered \in 0 .. Len(log)
  BY StreamType DEF StreamOK
<1>2. CASE Quiet
  BY <1>2 DEF Quiet, DeliveredIsPending
<1>3. CASE \E m \in Msgs : XAdd(m)
  <2>1. live' = live \union {Len(log) + 1} /\ lastDelivered' = lastDelivered /\ pel' = pel
    BY <1>3 DEF XAdd
  <2> QED BY <1>1, <2>1 DEF DeliveredIsPending
<1>4. ASSUME NEW ids, XAckDel(ids)  PROVE DeliveredIsPending'
  BY <1>4 DEF XAckDel, DeliveredIsPending
<1> QED BY <1>1, <1>2, <1>3, <1>4, DeliverPending DEF StreamStep, SettleEntries

(***************************************************************************)
(* Whatever was delivered and not deleted is in the pending entries list,  *)
(* where the timeout service looks for it, and nothing else is: for every  *)
(* PrefetchCount and every interleaving of deliveries and deletions.       *)
(***************************************************************************)
THEOREM DeliveredStaysPending == Spec => []DeliveredIsPending
<1>1. Init => DeliveredIsPending
  BY DEF Init, InitStore, DeliveredIsPending
<1>2. IInv /\ [Next]_vars /\ DeliveredIsPending => DeliveredIsPending'
  BY NextStream, StepPending DEF IInv
<1> QED BY <1>1, <1>2, Inductive, PTL DEF Spec
=============================================================================
