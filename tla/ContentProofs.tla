--------------------------- MODULE ContentProofs ---------------------------
(***************************************************************************)
(* What is proved of the variables that watch Delivery.  BatchContent: the *)
(* variable that outlives an entry is never reported for a message that    *)
(* was deserialized.  Scanning: a round of the pending-timeout service     *)
(* reaches all that was idle when it began.                                *)
(***************************************************************************)
EXTENDS DeliveryProofs, BatchContent, Scanning

\* Past Deserialize, a worker holds the content of the entry in hand, and is
\* about to write it.
ContentOwn ==
    \A w \in Workers : wpc[w] # "loop" /\ Message(w) \notin Poison => messageContent[w] = Message(w)

ErrorInfoOwn ==
    \A w \in Workers : wpc[w] \in {"retry", "giveup"} /\ Message(w) \notin Poison
                          => messageErrorInfo[w] = Message(w)

ContentIInv == ContentOwn /\ ErrorInfoOwn /\ GoodReportsOwn

-----------------------------------------------------------------------------
(* What a step of Delivery does to a worker and to ErrorInfo *)

\* A worker that has an entry in hand after a step had it before, and decides
\* about it in the catch block.
Steady(w) ==
    wpc'[w] # "loop" =>
        /\ batch[w] # {} /\ batch'[w] = batch[w]
        /\ wpc'[w] \in {"retry", "giveup"} => wpc'[w] = wpc[w] \/ wpc[w] = "error"

LEMMA WorkersSteady ==
    ASSUME TypeOK, [Next]_vars, NEW w \in Workers
    PROVE  Steady(w)
<1>1. /\ wpc \in [Workers -> WorkerStates] /\ batch \in [Workers -> SUBSET (1 .. lastDelivered)]
      /\ wpc[w] # "loop" => batch[w] # {}
  BY DEF TypeOK, ConsumerTypeOK
<1>2. CASE UNCHANGED consumerVars
  BY <1>1, <1>2 DEF consumerVars, Steady
<1>3. ASSUME NEW v \in Workers, Consuming(v)  PROVE Steady(w)
  <2>1. CASE v # w
    <3>1. wpc'[w] = wpc[w] /\ batch'[w] = batch[w]
      BY <1>1, <1>3, <2>1
         DEF Consuming, WorkerStep, HandlerChoice, WorkerFault, Read, ReadLost, ResolveError, BadPayload,
             Begin, BeginError, AckResolve, AckCommit, AckError, Return, ReturnError, Throw, ReadAttempts,
             Retry, GiveUp, ErrorLost, WorkerCrash, WGoto, NextEntry, consumerVars
    <3> QED BY <1>1, <3>1 DEF Steady
  <2>2. ASSUME NEW pc \in {"exec", "error"}, WGoto(w, pc), batch' = batch, batch[w] # {}  PROVE Steady(w)
    BY <1>1, <2>2 DEF WGoto, Steady
  <2>3. CASE Begin(w) \/ BeginError(w) \/ BadPayload(w) \/ Throw(w) \/ ReturnError(w)
    BY <1>1, <2>2, <2>3 DEF Begin, BeginError, BadPayload, Throw, ReturnError
  <2>4. CASE AckError(w)
    BY <1>1, <2>2, <2>4 DEF AckError, TypeOK, ConsumerTypeOK
  <2>5. CASE AckResolve(w) \/ AckCommit(w)
    BY <1>1, <2>5 DEF AckResolve, AckCommit, Steady
  <2>6. CASE ReadAttempts(w)
    BY <1>1, <2>6 DEF ReadAttempts, WGoto, Steady
  <2>7. CASE Return(w) \/ GiveUp(w) \/ Retry(w) \/ ErrorLost(w) \/ ResolveError(w) \/ WorkerCrash(w)
    BY <1>1, <2>7 DEF Return, GiveUp, Retry, ErrorLost, ResolveError, WorkerCrash, NextEntry, WGoto, Steady
  <2>8. CASE Read(w) \/ ReadLost(w)
    BY <2>8 DEF Read, ReadLost, consumerVars, Steady
  <2>9. CASE v = w
    BY <1>3, <2>3, <2>4, <2>5, <2>6, <2>7, <2>8, <2>9 DEF Consuming, WorkerStep, HandlerChoice, WorkerFault
  <2> QED BY <2>1, <2>9
<1> QED BY <1>2, <1>3 DEF Next, Publishing, Recovering, Passing, Elapse, LockExpires, vars

\* One worker moves at a time.
LEMMA OneReports ==
    ASSUME TypeOK, [Next]_vars, NEW v \in Workers, NEW w \in Workers, Reports(v), Reports(w)
    PROVE  v = w
<1>1. wpc \in [Workers -> WorkerStates] /\ wpc'[v] # wpc[v] /\ wpc'[w] # wpc[w]
  BY DEF TypeOK, ConsumerTypeOK, Reports
<1>2. wpc' # wpc
  BY <1>1
<1>3. PICK u \in Workers : Consuming(u)
  BY <1>2 DEF Next, Publishing, Recovering, Passing, Elapse, LockExpires, vars, consumerVars
<1>4. \A t \in Workers : wpc'[t] # wpc[t] => t = u
  BY <1>1, <1>3
     DEF Consuming, WorkerStep, HandlerChoice, WorkerFault, Read, ReadLost, ResolveError, BadPayload,
         Begin, BeginError, AckResolve, AckCommit, AckError, Return, ReturnError, Throw, ReadAttempts,
         Retry, GiveUp, ErrorLost, WorkerCrash, WGoto, NextEntry, consumerVars
<1> QED BY <1>1, <1>4

\* ErrorInfo appears by the pipeline of a catch block.
LEMMA ErrorInfoAppears ==
    ASSUME TypeOK, [Next]_vars, NEW m \in Msgs, hash'[m].err, ~hash[m].err
    PROVE  \E w \in Workers : Reports(w) /\ Message(w) = m
<1>1. hash \in [Msgs -> Hash] /\ wpc \in [Workers -> WorkerStates]
  BY DEF TypeOK, StoreTypeOK, ConsumerTypeOK
<1>2. hash' # hash
  OBVIOUS
<1>3. ASSUME NEW ms, NEW s, SetStatus(ms, s)  PROVE hash'[m].err = hash[m].err
  BY <1>1, <1>3 DEF SetStatus, Hash
<1>4. ASSUME NEW k \in Msgs, Publishing(k)  PROVE FALSE
  BY <1>1, <1>2, <1>4
     DEF Publishing, PublisherStep, PublisherFault, PublishMeta, PublishXAdd, PublishFinish, PublishCleanup,
         PublishMetaError, PublishXAddError, PublishFinishError, PublisherCrash, WriteMeta, WriteId, NoHash,
         Hash, metaVars
<1>5. ASSUME NEW s \in Servers, Recovering(s)  PROVE FALSE
  <2>1. CASE FailCommit(s)
    BY <1>3, <2>1 DEF FailCommit
  <2>2. CASE RepublishCommit(s)
    <3>1. log[Entry(s)] \in Msgs
      BY <2>2, EntryInClaimed DEF RepublishCommit, TypeOK, TimeoutTypeOK
    <3> QED BY <1>1, <2>2, <3>1 DEF RepublishCommit, Hash
  <2>3. CASE ~FailCommit(s) /\ ~RepublishCommit(s)
    BY <1>2, <1>5, <2>3
       DEF Recovering, TimeoutStep, TimeoutFault, AcquireLock, ScanPage, Claim, Inspect, Republish, Unlock,
           TimeoutError, TimeoutCrash, Drop, metaVars
  <2> QED BY <2>1, <2>2, <2>3
<1>6. ASSUME NEW w \in Workers, Consuming(w)  PROVE Reports(w) /\ Message(w) = m
  <2>1. wpc[w] # "loop" => batch[w] # {}
    BY DEF TypeOK, ConsumerTypeOK
  <2>2. batch[w] # {} => Message(w) \in Msgs
    BY CurrentInBatch DEF Message
  <2>3. CASE Retry(w) \/ GiveUp(w)
    <3>1. wpc[w] \in {"retry", "giveup"} /\ wpc'[w] = "loop" /\ faults' = faults
      BY <1>1, <2>3 DEF Retry, GiveUp, NextEntry, WGoto, NoFault
    <3>2. Message(w) \in Msgs
      BY <2>1, <2>2, <3>1
    <3>3. Message(w) = m
      BY <1>1, <2>3, <3>2 DEF Retry, GiveUp, Hash
    <3> QED BY <3>1, <3>3 DEF Reports
  <2>4. CASE Begin(w)
    BY <1>1, <2>2, <2>4 DEF Begin, Hash
  <2>5. CASE ~Retry(w) /\ ~GiveUp(w) /\ ~Begin(w)
    BY <1>2, <1>3, <1>6, <2>5
       DEF Consuming, WorkerStep, HandlerChoice, WorkerFault, Read, ReadLost, ResolveError, BadPayload,
           BeginError, AckResolve, AckCommit, AckError, Return, ReturnError, Throw, ReadAttempts,
           ErrorLost, WorkerCrash, AckExec, SettleExec, Complete, metaVars
  <2> QED BY <2>3, <2>4, <2>5
<1>7. ~Passing /\ ~UNCHANGED vars
  BY <1>2 DEF Passing, Elapse, LockExpires, vars, metaVars
<1> QED BY <1>4, <1>5, <1>6, <1>7 DEF Next

-----------------------------------------------------------------------------

LEMMA MessageStays ==
    ASSUME TypeOK, Grows, NEW w \in Workers, batch[w] # {}, batch'[w] = batch[w]
    PROVE  Message(w)' = Message(w) /\ Message(w) \in Msgs
<1>1. Current(w)' = Current(w)
  BY DEF Current
<1>2. Current(w) \in 1 .. Len(log) /\ Message(w) = log[Current(w)] /\ Message(w) \in Msgs
  BY CurrentInBatch DEF Message
<1> QED BY <1>1, <1>2 DEF Grows, Message

LEMMA StepContent ==
    ASSUME TypeOK, Grows, [Next]_vars, Track, ContentIInv
    PROVE  ContentIInv'
<1> USE DEF ContentIInv
<1>1. ASSUME NEW w \in Workers, wpc'[w] # "loop", Message(w)' \notin Poison
      PROVE  messageContent'[w] = Message(w)'
  <2>1. batch[w] # {} /\ batch'[w] = batch[w]
    BY <1>1, WorkersSteady DEF Steady
  <2>2. Message(w)' = Message(w)
    BY <2>1, MessageStays
  <2>3. messageContent'[w] = IF Deserialized(w) THEN Message(w) ELSE messageContent[w]
    BY <2>1 DEF Track, TrackContent
  <2> QED BY <1>1, <2>2, <2>3 DEF ContentOwn, Deserialized
<1>2. ASSUME NEW w \in Workers, wpc'[w] \in {"retry", "giveup"}, Message(w)' \notin Poison
      PROVE  messageErrorInfo'[w] = Message(w)'
  <2>1. /\ batch[w] # {} /\ batch'[w] = batch[w]
        /\ wpc[w] \in {"retry", "giveup"} \/ wpc[w] = "error"
    BY <1>2, WorkersSteady DEF Steady
  <2>2. Message(w)' = Message(w) /\ Message(w) \in Msgs
    BY <2>1, MessageStays
  <2>3. CASE wpc[w] = "error"
    <3>1. messageErrorInfo'[w] = IF hash[Message(w)].err THEN reported[Message(w)] ELSE messageContent[w]
      BY <1>2, <2>3 DEF Track, TrackErrorInfo
    <3> QED BY <1>2, <2>2, <2>3, <3>1 DEF ContentOwn, GoodReportsOwn
  <2>4. CASE wpc[w] \in {"retry", "giveup"}
    <3>1. messageErrorInfo'[w] = messageErrorInfo[w]
      BY <1>2, <2>4 DEF Track, TrackErrorInfo
    <3> QED BY <1>2, <2>2, <2>4, <3>1 DEF ErrorInfoOwn
  <2> QED BY <2>1, <2>3, <2>4
<1>3. ASSUME NEW m \in Msgs \ Poison, hash'[m].err
      PROVE  reported'[m] = m
  <2>1. reported'[m] = IF \E w \in Workers : Reports(w) /\ Message(w) = m
                         THEN messageErrorInfo[CHOOSE w \in Workers : Reports(w)]
                         ELSE reported[m]
    BY <1>3 DEF Track, TrackReports
  <2>2. CASE \E w \in Workers : Reports(w) /\ Message(w) = m
    <3>1. PICK w \in Workers : Reports(w) /\ Message(w) = m
      BY <2>2
    <3>2. (CHOOSE v \in Workers : Reports(v)) = w
      BY <3>1, OneReports
    <3>3. messageErrorInfo[w] = m
      BY <3>1 DEF Reports, ErrorInfoOwn
    <3> QED BY <2>1, <2>2, <3>2, <3>3
  <2>3. CASE ~\E w \in Workers : Reports(w) /\ Message(w) = m
    <3>1. hash[m].err
      BY <1>3, <2>3, ErrorInfoAppears
    <3> QED BY <2>1, <2>3, <3>1 DEF GoodReportsOwn
  <2> QED BY <2>2, <2>3
<1> QED BY <1>1, <1>2, <1>3 DEF ContentOwn, ErrorInfoOwn, GoodReportsOwn

(***************************************************************************)
(* A message that deserializes is reported with its own content, whoever   *)
(* reports it, whatever was in the batch before it and whatever fails.     *)
(***************************************************************************)
THEOREM ReportsAreOwn == SpecContent => []GoodReportsOwn
<1>1. SpecContent => Spec
  <2>1. [Next /\ Track]_<<vars, contentVars>> => [Next]_vars
    OBVIOUS
  <2> QED BY <2>1, PTL DEF SpecContent, Spec
<1>2. Init /\ InitContent => ContentIInv
  BY DEF Init, InitStore, InitConsumer, InitContent, NoHash, ContentIInv, ContentOwn, ErrorInfoOwn,
         GoodReportsOwn
<1>3. IInv /\ [Next /\ Track]_<<vars, contentVars>> /\ ContentIInv => ContentIInv'
  <2>1. CASE Next /\ Track
    <3>1. IInv => (TypeOK /\ Grows)
      BY <2>1, NextStream, StreamGrows DEF IInv
    <3> QED BY <2>1, <3>1, StepContent
  <2>2. CASE UNCHANGED <<vars, contentVars>>
    <3>1. /\ wpc' = wpc /\ hash' = hash /\ messageContent' = messageContent
          /\ messageErrorInfo' = messageErrorInfo /\ reported' = reported
          /\ \A w \in Workers : Message(w)' = Message(w)
      BY <2>2 DEF vars, contentVars, streamVars, metaVars, consumerVars, Message, Current
    <3> QED BY <3>1 DEF ContentIInv, ContentOwn, ErrorInfoOwn, GoodReportsOwn
  <2> QED BY <2>1, <2>2
<1>4. ContentIInv => GoodReportsOwn
  BY DEF ContentIInv
<1> QED BY <1>1, <1>2, <1>3, <1>4, Inductive, PTL DEF SpecContent

-----------------------------------------------------------------------------
(* The rounds of the pending-timeout service *)

\* What was idle when the round began is idle still or gone; behind the cursor
\* it is about to be claimed.
Reached(s) ==
    /\ overdue[s] \subseteq idle
    /\ \A i \in overdue[s] : i < cursor[s] => tpc[s] = "claim" /\ i \in claimed[s]
    /\ tpc[s] \in {"lock", "unlock"} => cursor[s] = 0

ScanIInv == \A s \in Servers : Reached(s)

LEMMA IdsType ==
    TypeOK => /\ pel \in SUBSET (1 .. lastDelivered) /\ pel \in SUBSET Nat /\ idle \subseteq pel
              /\ lastDelivered \in Nat
<1> SUFFICES ASSUME TypeOK
             PROVE  /\ pel \in SUBSET (1 .. lastDelivered) /\ pel \in SUBSET Nat /\ idle \subseteq pel
                    /\ lastDelivered \in Nat
  OBVIOUS
<1>1. lastDelivered \in Nat
  BY StreamType DEF StreamOK
<1>2. pel \in SUBSET (1 .. lastDelivered) /\ idle \subseteq pel
  BY DEF TypeOK, StoreTypeOK
<1> QED BY <1>1, <1>2

IdleNumbers == idle \in SUBSET Nat

LEMMA IdleType == TypeOK => IdleNumbers
BY IdsType DEF IdleNumbers

LEMMA IdleTypeNext == TypeOK' => IdleNumbers'
BY IdleType, PTL

\* A page begins at the cursor without a gap, and is empty at the end only.
LEMMA PageFacts ==
    ASSUME TypeOK, NEW s \in Servers
    PROVE  /\ \A last \in Page(s), i \in pel : cursor[s] <= i /\ i <= last => i \in Page(s)
           /\ Page(s) = {} => \A i \in pel : i < cursor[s]
<1> DEFINE rest == {i \in pel : i >= cursor[s]}
           Before(i) == {j \in rest : j < i}
<1>1. /\ cursor[s] \in Nat /\ PageSize \in Nat \ {0} /\ lastDelivered \in Nat
      /\ pel \in SUBSET (1 .. lastDelivered) /\ pel \in SUBSET Nat
  BY TimeoutAssumption, IdsType DEF TypeOK, TimeoutTypeOK
<1>2. IsFiniteSet(1 .. lastDelivered)
  BY <1>1, FS_Interval
<1>3. \A i : IsFiniteSet(Before(i)) /\ Cardinality(Before(i)) \in Nat
  BY <1>1, <1>2, FS_Subset, FS_CardinalityType
<1>4. \A i : i \in Page(s) <=> i \in rest /\ Cardinality(Before(i)) < PageSize
  BY DEF Page
<1>5. ASSUME NEW last \in Page(s), NEW i \in pel, cursor[s] <= i, i <= last
      PROVE  i \in Page(s)
  <2>1. i \in rest /\ last \in rest /\ rest \in SUBSET Nat
    <3>1. last \in rest
      BY <1>4
    <3>2. i \in Nat /\ i >= cursor[s]
      BY <1>1, <1>5
    <3> QED BY <1>1, <3>1, <3>2
  <2>2. Before(i) \in SUBSET Before(last)
    <3>1. \A j \in rest : j < i => j < last
      <4> HIDE DEF rest
      <4>1. i \in Nat /\ last \in Nat /\ rest \in SUBSET Nat
        BY <2>1
      <4> QED BY <1>5, <4>1
    <3> HIDE DEF rest
    <3> QED BY <3>1
  <2>3. Cardinality(Before(i)) <= Cardinality(Before(last))
    BY <1>3, <2>2, FS_Subset
  <2>4. Cardinality(Before(i)) < PageSize
    <3>1. Cardinality(Before(last)) < PageSize
      BY <1>4
    <3> HIDE DEF Before
    <3> QED BY <1>1, <1>3, <2>3, <3>1
  <2> QED BY <1>4, <2>1, <2>4
<1>6. ASSUME NEW i \in pel, ~(i < cursor[s])  PROVE Page(s) # {}
  <2>1. rest \in SUBSET Nat /\ rest # {}
    <3>1. i \in Nat /\ i >= cursor[s]
      BY <1>1, <1>6
    <3> QED BY <1>1, <3>1
  <2>2. PICK least \in rest : \A j \in rest : least <= j
    BY <2>1, LeastElement
  <2>3. Before(least) = {}
    BY <2>1, <2>2
  <2>4. Cardinality(Before(least)) = 0
    BY <2>3, FS_EmptySet
  <2> QED BY <1>1, <1>4, <2>4
<1> QED BY <1>5, <1>6

LEMMA ScanReaches ==
    ASSUME TypeOK, TypeOK', NEW s \in Servers, Reached(s), ScanPage(s), overdue'[s] \subseteq overdue[s]
    PROVE  Reached(s)' /\ (RoundEnds(s) => overdue[s] = {})
<1>1. /\ cursor \in [Servers -> Nat] /\ tpc \in [Servers -> TaskStates]
      /\ claimed \in [Servers -> SUBSET (1 .. lastDelivered)]
      /\ pel \in SUBSET Nat /\ idle \subseteq pel /\ overdue[s] \subseteq pel
  BY IdsType DEF TypeOK, TimeoutTypeOK, Reached
<1>2. idle' = idle /\ overdue'[s] \subseteq idle
  BY DEF ScanPage, streamVars, Reached
<1>3. CASE Page(s) = {}
  <2>1. tpc'[s] = "unlock" /\ cursor'[s] = 0
    BY <1>1, <1>3 DEF ScanPage, TGoto
  <2>2. \A i \in overdue[s] : FALSE
    <3>1. \A i \in overdue[s] : i < cursor[s]
      BY <1>1, <1>3, PageFacts
    <3>2. tpc[s] = "scan"
      BY DEF ScanPage
    <3> QED BY <3>1, <3>2 DEF Reached
  <2> QED BY <1>2, <2>1, <2>2 DEF Reached
<1>4. CASE Page(s) # {}
  <2>1. PICK last \in Page(s) : (\A i \in Page(s) : i <= last) /\ cursor' = [cursor EXCEPT ![s] = last + 1]
    BY <1>4 DEF ScanPage, NextStreamId
  <2>2. last \in Nat /\ cursor'[s] = last + 1 /\ claimed'[s] = Page(s) \intersect idle /\ tpc[s] = "scan"
        /\ tpc'[s] = IF Page(s) \intersect idle = {} THEN "scan" ELSE "claim"
    BY <1>1, <1>4, <2>1 DEF ScanPage, TGoto, Page
  <2>3. ASSUME NEW i \in overdue'[s], i < cursor'[s]
        PROVE  tpc'[s] = "claim" /\ i \in claimed'[s]
    <3>1. i \in overdue[s] /\ i \in pel /\ i \in idle /\ i \in Nat /\ cursor[s] \in Nat
      BY <1>1, <1>2, <2>3
    <3>2. ~(i < cursor[s])
      BY <2>2, <3>1 DEF Reached
    <3>3. cursor[s] <= i /\ i <= last
      BY <2>2, <2>3, <3>1, <3>2
    <3>4. i \in Page(s)
      BY <3>1, <3>3, PageFacts
    <3> QED BY <2>2, <3>1, <3>4
  <2> QED BY <1>2, <2>2, <2>3 DEF Reached, RoundEnds
<1> QED BY <1>3, <1>4

\* The steps of a service other than those that look for idle entries.
LEMMA ServiceReaches ==
    ASSUME TypeOK, TypeOK', NEW s \in Servers, Reached(s), Recovering(s), ~ScanPage(s),
           overdue'[s] \subseteq idle',
           overdue'[s] \subseteq overdue[s] \/ RoundBegins(s)
    PROVE  Reached(s)' /\ ~RoundEnds(s)
<1>1. /\ cursor \in [Servers -> Nat] /\ tpc \in [Servers -> TaskStates]
      /\ claimed \in [Servers -> SUBSET (1 .. lastDelivered)]
      /\ \A i \in overdue'[s] : i \in Nat /\ 0 <= i
  BY IdleTypeNext DEF IdleNumbers, TypeOK, TimeoutTypeOK
<1>2. ASSUME cursor'[s] = 0  PROVE Reached(s)'
  BY <1>1, <1>2 DEF Reached
<1>3. CASE AcquireLock(s)
  BY <1>1, <1>2, <1>3 DEF AcquireLock, TGoto, Reached, RoundEnds
<1>4. CASE Claim(s)
  <2>1. /\ idle' = idle \ (claimed[s] \intersect idle) /\ cursor'[s] = cursor[s]
        /\ tpc[s] = "claim" /\ tpc'[s] \in {"scan", "entry"}
    BY <1>1, <1>4 DEF Claim, TGoto
  <2>2. overdue'[s] \subseteq overdue[s]
    BY <2>1 DEF RoundBegins
  <2> QED BY <2>1, <2>2 DEF Reached, RoundEnds
<1>5. CASE Inspect(s) \/ FailCommit(s) \/ Republish(s) \/ RepublishCommit(s)
  <2>1. /\ cursor'[s] = cursor[s] /\ tpc[s] \in {"entry", "giveup", "republish", "commit"}
        /\ tpc'[s] \notin {"lock", "unlock"}
    BY <1>1, <1>5
       DEF Inspect, FailCommit, Republish, RepublishCommit, NextClaimed, TGoto
  <2>2. overdue'[s] \subseteq overdue[s]
    BY <2>1 DEF RoundBegins
  <2> QED BY <2>1, <2>2 DEF Reached, RoundEnds
<1>6. CASE Unlock(s)
  BY <1>1, <1>2, <1>6 DEF Unlock, TGoto, Reached, RoundEnds
<1>7. CASE TimeoutError(s) \/ TimeoutCrash(s)
  <2>1. cursor'[s] = 0 /\ faults' # faults
    BY <1>1, <1>7, FaultsType DEF TimeoutError, TimeoutCrash, Drop, Fault, TypeOK, StoreTypeOK
  <2> QED BY <1>2, <2>1 DEF RoundEnds
<1> QED BY <1>3, <1>4, <1>5, <1>6, <1>7 DEF Recovering, TimeoutStep, TimeoutFault

LEMMA StepReaches ==
    ASSUME TypeOK, TypeOK', Next, Watch, NEW s \in Servers, Reached(s)
    PROVE  Reached(s)' /\ (RoundEnds(s) => overdue[s] = {})
<1>1. overdue'[s] = IF RoundBegins(s) THEN idle ELSE overdue[s] \intersect idle'
  BY DEF Watch
<1>2. ASSUME tpc'[s] = tpc[s], cursor'[s] = cursor[s], claimed'[s] = claimed[s]
      PROVE  Reached(s)' /\ ~RoundEnds(s)
  BY <1>1, <1>2 DEF Reached, RoundBegins, RoundEnds
<1>3. CASE \E m \in Msgs : Publishing(m)
  BY <1>2, <1>3 DEF Publishing, timeoutVars
<1>4. CASE \E w \in Workers : Consuming(w)
  BY <1>2, <1>4 DEF Consuming, timeoutVars
<1>5. ASSUME NEW t \in Servers, Recovering(t)  PROVE Reached(s)' /\ (RoundEnds(s) => overdue[s] = {})
  <2>1. CASE t # s
    <3>1. tpc'[s] = tpc[s] /\ cursor'[s] = cursor[s] /\ claimed'[s] = claimed[s]
      BY <1>5, <2>1
         DEF Recovering, TimeoutStep, TimeoutFault, AcquireLock, ScanPage, Claim, Inspect, FailCommit,
             Republish, RepublishCommit, Unlock, TimeoutError, TimeoutCrash, Drop, NextClaimed, TGoto,
             TypeOK, TimeoutTypeOK
    <3> QED BY <1>2, <3>1
  <2>2. CASE ScanPage(s)
    <3>1. tpc[s] # "lock"
      BY <2>2 DEF ScanPage
    <3> QED BY <1>1, <2>2, <3>1, ScanReaches DEF RoundBegins
  <2>3. CASE t = s /\ ~ScanPage(s)
    <3>1. RoundBegins(s) => idle' = idle
      BY <1>5, <2>3
         DEF RoundBegins, Recovering, TimeoutStep, TimeoutFault, AcquireLock, Claim, Inspect, FailCommit,
             Republish, RepublishCommit, Unlock, TimeoutError, TimeoutCrash, streamVars
    <3>2. overdue'[s] \subseteq idle' /\ (overdue'[s] \subseteq overdue[s] \/ RoundBegins(s))
      BY <1>1, <3>1
    <3> QED BY <1>5, <2>3, <3>2, ServiceReaches
  <2> QED BY <2>1, <2>2, <2>3
<1>6. CASE Passing
  BY <1>2, <1>6 DEF Passing, Elapse, LockExpires, timeoutVars
<1> QED BY <1>2, <1>3, <1>4, <1>5, <1>6 DEF Next

(***************************************************************************)
(* A round that ends by itself leaves nothing unclaimed that was idle when *)
(* it began, for any page size, number of entries and of services, however *)
(* late batches, claims and the lock are.                                  *)
(***************************************************************************)
THEOREM RoundsReachAll == SpecScanning => RoundsComplete
<1>1. SpecScanning => Spec
  <2>1. [Next /\ Watch]_<<vars, overdue>> => [Next]_vars
    OBVIOUS
  <2> QED BY <2>1, PTL DEF SpecScanning, Spec
<1>2. Init /\ InitScanning => ScanIInv
  BY DEF Init, InitTimeout, InitScanning, ScanIInv, Reached
<1>3. IInv /\ IInv' /\ ScanIInv /\ [Next /\ Watch]_<<vars, overdue>>
         => ScanIInv' /\ [\A s \in Servers : RoundEnds(s) => overdue[s] = {}]_<<vars, overdue>>
  <2>1. CASE UNCHANGED <<vars, overdue>>
    BY <2>1 DEF vars, timeoutVars, streamVars, ScanIInv, Reached
  <2>2. CASE Next /\ Watch
    BY <2>2, StepReaches DEF IInv, ScanIInv
  <2> QED BY <2>1, <2>2
<1> QED BY <1>1, <1>2, <1>3, Inductive, PTL DEF SpecScanning, RoundsComplete
=============================================================================
