--------------------------- MODULE RegistryProofs ---------------------------
(***************************************************************************)
(* Who removes a server or its consumers from the registry has a reason,   *)
(* for any number of servers, however their rounds overlap and fail.       *)
(***************************************************************************)
EXTENDS ServerRegistry, TLAPS

RegistryTypeOK ==
    /\ toAdd \in [Servers -> SUBSET Consumers] /\ hpc \in [Servers -> TaskStates]
    /\ nodes \in SUBSET Servers /\ age \in [Servers -> Nat]
    /\ consumers \in SUBSET (Servers \X Consumers)
    /\ serverNodes \in [Servers -> SUBSET Servers]
    /\ readAge \in [Servers -> [Servers -> Nat]]
    /\ consumerList \in [Servers -> SUBSET (Servers \X Consumers)]
    /\ expireConsumerList \in [Servers -> SUBSET (Servers \X Consumers)]
    /\ faults \in Nat /\ lapsed \in [Servers -> SUBSET Servers]
    /\ paused \in SUBSET Servers

\* Outside the second half of a round there is nothing to remove.
NothingChosen ==
    \A s \in Servers : hpc[s] \in {"new", "beat", "nodes", "list", "expired", "sleep"} =>
        expireConsumerList[s] = {}

\* Of what has not been read yet, only what has lapsed could look lapsed.
AboutToRead ==
    \A s \in Servers \ paused : hpc[s] = "nodes" =>
        \A t \in Servers : t \notin nodes \/ TooOld(age[t]) => t \in lapsed[s]

\* What was read as missing or too old has lapsed.
ReadIsTrue ==
    \A s \in Servers \ paused :
        /\ hpc[s] \in {"list", "expired"} => Servers \ serverNodes[s] \subseteq lapsed[s]
        /\ hpc[s] \in {"list", "expired", "hdel"} =>
              \A t \in serverNodes[s] : Expired(s, t) => t \in lapsed[s]

RemovalIInv ==
    RegistryTypeOK /\ NothingChosen /\ AboutToRead /\ ReadIsTrue /\ OnlyLapsedRemoved

\* Nobody has heard of a server that has not started.
NewIsUnheard ==
    \A t \in Servers : hpc[t] = "new" => t \notin nodes /\ \A s \in Servers : t \notin serverNodes[s]

\* A server that beats in time is never more than a period old: by what Redis
\* holds, and by what a server without a pause in its round has read.
BeatsInTime ==
    \A t \in Servers \ Stalling : Alive(t) =>
        /\ t \in nodes => age[t] <= (IF hpc[t] = "beat" THEN 1 ELSE 0)
        /\ \A s \in Servers \ paused :
              hpc[s] \in {"list", "expired", "hdel"} /\ t \in serverNodes[s] => readAge[s][t] <= 1

ListingIInv == RegistryTypeOK /\ NewIsUnheard /\ BeatsInTime

-----------------------------------------------------------------------------

\* The steps of a server, each with all it leaves alone, and the clock's.
RegistryStep(s) ==
    Start(s) \/ Register(s) \/ HeartbeatStep(s) \/ HeartbeatError(s) \/ Crash(s)

LEMMA RegistryTypesKept ==
    ASSUME RegistryTypeOK, [Next]_vars
    PROVE  RegistryTypeOK'
<1> USE RegistryAssumption DEF RegistryTypeOK
<1>1. CASE \E s \in Servers : RegistryStep(s)
  <2>1. PICK s \in Servers : RegistryStep(s)
    BY <1>1
  <2>2. \A l \in TaskStates : HGoto(s, l) => hpc' \in [Servers -> TaskStates]
    BY DEF HGoto
  <2>3. CASE Start(s)
    BY <2>3, <2>2 DEF Start, TaskStates, localVars
  <2>4. CASE Register(s)
    BY <2>4 DEF Register, localVars
  <2>5. CASE Beat(s)
    BY <2>5, <2>2 DEF Beat, TaskStates, localVars
  <2>6. CASE ReadNodes(s)
    BY <2>6, <2>2 DEF ReadNodes, TaskStates
  <2>7. CASE ReadConsumers(s)
    BY <2>7, <2>2 DEF ReadConsumers, TaskStates
  <2>8. CASE FindExpired(s)
    <3>1. hpc' \in [Servers -> TaskStates]
      BY <2>8, <2>2 DEF FindExpired, TaskStates
    <3> QED BY <2>8, <3>1 DEF FindExpired, OwnedBy
  <2>9. CASE DeleteNode(s)
    <3>1. hpc' \in [Servers -> TaskStates]
      BY <2>9, <2>2 DEF DeleteNode, TaskStates
    <3>2. lapsed' \in [Servers -> SUBSET Servers]
      BY <2>9 DEF DeleteNode
    <3>3. serverNodes' \in [Servers -> SUBSET Servers] /\ nodes' \in SUBSET Servers
      BY <2>9 DEF DeleteNode
    <3>4. expireConsumerList' \in [Servers -> SUBSET (Servers \X Consumers)]
      <4> DEFINE Pairs == Servers \X Consumers
      <4>1. \A t : OwnedBy(consumerList[s], {t}) \subseteq Pairs
        BY DEF OwnedBy
      <4>2. PICK t : \/ UNCHANGED expireConsumerList
                     \/ expireConsumerList' =
                          [expireConsumerList EXCEPT ![s] = @ \union OwnedBy(consumerList[s], {t})]
        BY <2>9 DEF DeleteNode
      <4>3. expireConsumerList \in [Servers -> SUBSET Pairs]
        OBVIOUS
      <4> HIDE DEF Pairs, RegistryTypeOK
      <4>4. expireConsumerList' \in [Servers -> SUBSET Pairs]
        BY <4>1, <4>2, <4>3
      <4> QED BY <4>4 DEF Pairs
    <3> QED BY <2>9, <3>1, <3>2, <3>3, <3>4 DEF DeleteNode
  <2>10. CASE RemoveConsumers(s)
    BY <2>10, <2>2 DEF RemoveConsumers, TaskStates
  <2>11. CASE HeartbeatError(s)
    BY <2>11, <2>2 DEF HeartbeatError, TaskStates, localVars
  <2>12. CASE Crash(s)
    <3>1. hpc' \in [Servers -> TaskStates]
      BY <2>12, <2>2 DEF Crash, TaskStates
    <3>2. toAdd' \in [Servers -> SUBSET Consumers]
      BY <2>12 DEF Crash
    <3>3. faults' \in Nat
      BY <2>12 DEF Crash
    <3> QED BY <2>12, <3>1, <3>2, <3>3 DEF Crash, localVars
  <2> QED
    BY <2>1, <2>3, <2>4, <2>5, <2>6, <2>7, <2>8, <2>9, <2>10, <2>11, <2>12
    DEF RegistryStep, HeartbeatStep
<1>2. CASE Tick
  BY <1>2 DEF Tick, TaskStates
<1>3. CASE UNCHANGED vars
  BY <1>3 DEF vars, localVars
<1> QED BY <1>1, <1>2, <1>3 DEF Next, RegistryStep

(***************************************************************************)
(* A step of a server keeps what the removals rest on: Beat sets down who  *)
(* has lapsed by then, DeleteNode tells every other round.                 *)
(***************************************************************************)
LEMMA RemovalSteps ==
    ASSUME RemovalIInv, RegistryTypeOK', NEW s \in Servers, RegistryStep(s)
    PROVE  NothingChosen' /\ AboutToRead' /\ ReadIsTrue' /\ OnlyLapsedRemoved'
<1> USE RegistryAssumption
    DEF RemovalIInv, RegistryTypeOK, NothingChosen, AboutToRead, ReadIsTrue, OnlyLapsedRemoved,
        Expired, TooOld, Alive, HGoto
<1>1. CASE Start(s)
  BY <1>1 DEF Start, localVars
<1>2. CASE Register(s)
  BY <1>2 DEF Register, localVars
<1>3. CASE Beat(s)
  BY <1>3 DEF Beat, localVars
<1>4. CASE ReadNodes(s)
  BY <1>4 DEF ReadNodes
<1>5. CASE ReadConsumers(s)
  BY <1>5 DEF ReadConsumers
<1>6. CASE FindExpired(s)
  BY <1>6 DEF FindExpired, OwnedBy
<1>7. CASE DeleteNode(s)
  <2>1. PICK t \in serverNodes[s] :
          /\ serverNodes' = [serverNodes EXCEPT ![s] = @ \ {t}]
          /\ IF Expired(s, t)
               THEN /\ nodes' = nodes \ {t}
                    /\ expireConsumerList' =
                          [expireConsumerList EXCEPT ![s] = @ \union OwnedBy(consumerList[s], {t})]
                    /\ lapsed' = [u \in Servers |-> IF u = s THEN lapsed[u] ELSE lapsed[u] \union {t}]
               ELSE UNCHANGED <<nodes, expireConsumerList, lapsed>>
    BY <1>7 DEF DeleteNode
  <2>2. /\ hpc[s] = "hdel" /\ hpc'[s] \in {"hdel", "srem"}
        /\ \A u \in Servers \ {s} : hpc'[u] = hpc[u]
        /\ UNCHANGED <<age, readAge, paused>>
    BY <1>7 DEF DeleteNode
  <2>3. /\ \A u \in Servers \ {s} : expireConsumerList'[u] = expireConsumerList[u]
        /\ \A u \in Servers : lapsed[u] \subseteq lapsed'[u]
    BY <2>1
  <2>4. NothingChosen'
    BY <2>2, <2>3
  <2>5. AboutToRead'
    BY <2>1, <2>2, <2>3
  <2>6. ReadIsTrue'
    BY <2>1, <2>2, <2>3
  <2>7. OnlyLapsedRemoved'
    <3>1. s \notin paused /\ Expired(s, t) => t \in lapsed[s]
      BY <2>1, <2>2
    <3>2. \A c \in expireConsumerList'[s] :
            c \in expireConsumerList[s] \/ (c[1] = t /\ Expired(s, t))
      BY <2>1 DEF OwnedBy
    <3> QED BY <2>2, <2>3, <3>1, <3>2
  <2> QED BY <2>4, <2>5, <2>6, <2>7
<1>8. CASE RemoveConsumers(s)
  BY <1>8 DEF RemoveConsumers
<1>9. CASE HeartbeatError(s)
  BY <1>9 DEF HeartbeatError, localVars
<1>10. CASE Crash(s)
  BY <1>10 DEF Crash, localVars
<1> QED
  BY <1>1, <1>2, <1>3, <1>4, <1>5, <1>6, <1>7, <1>8, <1>9, <1>10 DEF RegistryStep, HeartbeatStep

LEMMA RemovalKept ==
    ASSUME RemovalIInv, [Next]_vars
    PROVE  RemovalIInv'
<1>1. RegistryTypeOK'
  BY RegistryTypesKept DEF RemovalIInv
<1>2. CASE \E s \in Servers : RegistryStep(s)
  BY <1>1, <1>2, RemovalSteps DEF RemovalIInv
<1>3. CASE Tick
  BY <1>1, <1>3
  DEF RemovalIInv, RegistryTypeOK, NothingChosen, AboutToRead, ReadIsTrue, OnlyLapsedRemoved,
      Alive, Tick, TaskStates, Expired
<1>4. CASE UNCHANGED vars
  BY <1>1, <1>4
  DEF RemovalIInv, NothingChosen, AboutToRead, ReadIsTrue, OnlyLapsedRemoved, Alive, vars,
      localVars, Expired
<1> QED BY <1>2, <1>3, <1>4 DEF Next, RegistryStep

(***************************************************************************)
(* Consumers are removed from ConsumerList only if their server had no     *)
(* heartbeat, or one that was too old, at some time since the round of the *)
(* remover began.                                                          *)
(***************************************************************************)
THEOREM RemovalsJustified == Spec => []OnlyLapsedRemoved
<1>1. Init => RemovalIInv
  BY RegistryAssumption
  DEF Init, RemovalIInv, RegistryTypeOK, NothingChosen, AboutToRead, ReadIsTrue,
      OnlyLapsedRemoved, TaskStates
<1>2. RemovalIInv /\ [Next]_vars => RemovalIInv'
  BY RemovalKept
<1>3. RemovalIInv => OnlyLapsedRemoved
  BY DEF RemovalIInv
<1> QED BY <1>1, <1>2, <1>3, PTL DEF Spec

-----------------------------------------------------------------------------

LEMMA ListingSteps ==
    ASSUME ListingIInv, RegistryTypeOK', NEW s \in Servers, RegistryStep(s)
    PROVE  NewIsUnheard' /\ BeatsInTime'
<1> USE RegistryAssumption
    DEF ListingIInv, RegistryTypeOK, NewIsUnheard, BeatsInTime, Alive, HGoto
<1>1. CASE Start(s)
  BY <1>1 DEF Start, localVars
<1>2. CASE Register(s)
  BY <1>2 DEF Register, localVars
<1>3. CASE Beat(s)
  BY <1>3 DEF Beat, localVars
<1>4. CASE ReadNodes(s)
  BY <1>4 DEF ReadNodes
<1>5. CASE ReadConsumers(s)
  BY <1>5 DEF ReadConsumers
<1>6. CASE FindExpired(s)
  BY <1>6 DEF FindExpired
<1>7. CASE DeleteNode(s)
  BY <1>7 DEF DeleteNode
<1>8. CASE RemoveConsumers(s)
  BY <1>8 DEF RemoveConsumers
<1>9. CASE HeartbeatError(s)
  BY <1>9 DEF HeartbeatError, localVars
<1>10. CASE Crash(s)
  BY <1>10 DEF Crash, localVars
<1> QED
  BY <1>1, <1>2, <1>3, <1>4, <1>5, <1>6, <1>7, <1>8, <1>9, <1>10 DEF RegistryStep, HeartbeatStep

LEMMA ListingKept ==
    ASSUME ListingIInv, [Next]_vars
    PROVE  ListingIInv'
<1>1. RegistryTypeOK'
  BY RegistryTypesKept DEF ListingIInv
<1>2. CASE \E s \in Servers : RegistryStep(s)
  BY <1>1, <1>2, ListingSteps DEF ListingIInv
<1>3. CASE Tick
  BY <1>1, <1>3, RegistryAssumption
  DEF ListingIInv, RegistryTypeOK, NewIsUnheard, BeatsInTime, Alive, Tick, TaskStates
<1>4. CASE UNCHANGED vars
  BY <1>1, <1>4 DEF ListingIInv, NewIsUnheard, BeatsInTime, Alive, vars, localVars
<1> QED BY <1>2, <1>3, <1>4 DEF Next, RegistryStep

\* Only DeleteNode takes a server off the nodes, and judges by what it read.
LEMMA WhoDeletes ==
    ASSUME RegistryTypeOK, [Next]_vars, NEW t \in nodes, t \notin nodes'
    PROVE  \E s \in Servers : hpc[s] = "hdel" /\ t \in serverNodes[s] /\ Expired(s, t)
<1> USE DEF RegistryTypeOK
<1>1. CASE \E s \in Servers : RegistryStep(s)
  <2>1. PICK s \in Servers : RegistryStep(s)
    BY <1>1
  <2>2. DeleteNode(s)
    BY <2>1
    DEF RegistryStep, HeartbeatStep, Start, Register, Beat, ReadNodes, ReadConsumers,
        FindExpired, RemoveConsumers, HeartbeatError, Crash
  <2> QED BY <2>2 DEF DeleteNode
<1>2. CASE Tick \/ UNCHANGED vars
  BY <1>2 DEF Tick, vars
<1> QED BY <1>1, <1>2 DEF Next, RegistryStep

(***************************************************************************)
(* The node of a server that beats in time is deleted by nobody, except in *)
(* a round with a pause in it.  The threshold has to be more than a        *)
(* period, as it is in the code, where a heartbeat may be one period old.  *)
(***************************************************************************)
THEOREM BeatersStay == ASSUME Expire > 1 PROVE Spec => StaysListed
<1>1. Init => ListingIInv
  BY RegistryAssumption
  DEF Init, ListingIInv, RegistryTypeOK, NewIsUnheard, BeatsInTime, Alive, TaskStates
<1>2. ListingIInv /\ [Next]_vars => ListingIInv'
  BY ListingKept
<1>3. ASSUME ListingIInv, [Next]_vars, NEW t \in Servers \ Stalling,
             Alive(t), t \in nodes, t \notin nodes'
      PROVE  \E s \in paused : hpc[s] = "hdel"
  <2>1. PICK s \in Servers : hpc[s] = "hdel" /\ t \in serverNodes[s] /\ Expired(s, t)
    BY <1>3, WhoDeletes DEF ListingIInv
  <2>2. CASE s \notin paused
    <3>1. readAge[s][t] <= 1
      BY <1>3, <2>1, <2>2 DEF ListingIInv, BeatsInTime
    <3>2. readAge[s][t] \in Nat
      BY <1>3 DEF ListingIInv, RegistryTypeOK
    <3> QED BY <2>1, <3>1, <3>2, RegistryAssumption DEF Expired, TooOld
  <2> QED BY <2>1, <2>2
<1>4. ListingIInv /\ [Next]_vars =>
        [ \A t \in Servers \ Stalling :
            Alive(t) /\ t \in nodes /\ t \notin nodes' => \E s \in paused : hpc[s] = "hdel" ]_vars
  BY <1>3
<1> QED BY <1>1, <1>2, <1>4, PTL DEF Spec, StaysListed
=============================================================================
