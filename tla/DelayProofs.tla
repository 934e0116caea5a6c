----------------------------- MODULE DelayProofs -----------------------------
(***************************************************************************)
(* Theorems about DelayQueue, for every number of messages, queues, delays,*)
(* processes and servers: who moves a message, how often it is moved, and  *)
(* when its sorted set is looked at.                                       *)
(***************************************************************************)
EXTENDS DelayQueue, FiniteSetTheorems, TLAPS

-----------------------------------------------------------------------------
(* Types *)

PublishTypeOK ==
    /\ home \in [Msgs -> Queues \X Delays] /\ origin \in [Msgs -> Processes]
    /\ known \in [Processes -> SUBSET Delays] /\ types \in [Queues -> SUBSET Delays]
    /\ call \in [Msgs -> {"new", "registered", "done", "failed"}]

SetTypeOK == waiting \subseteq Msgs /\ due \subseteq Msgs

StreamTypeOK == copies \in [Msgs -> Nat] /\ stored \in [Msgs -> Nat]

MoverTypeOK ==
    /\ mpc \in [Movers -> MoverStates]
    /\ todo \in [Movers -> SUBSET Delays] /\ reading \in [Movers -> Delays \union {NoDelay}]
    /\ bag \in [Movers -> SUBSET Msgs] /\ hand \in [Movers -> Msgs \union {NoMsg}]
    /\ \A t \in Movers : /\ mpc[t] \in {"add", "setid", "restore"} <=> hand[t] # NoMsg
                         /\ mpc[t] = "move" => bag[t] # {}

FaultTypeOK == faults \in 0 .. MaxFaults /\ deaths \in Nat

LEMMA TypeParts ==
    /\ TypeOK <=> PublishTypeOK /\ SetTypeOK /\ StreamTypeOK /\ MoverTypeOK /\ FaultTypeOK
    /\ TypeOK' <=> PublishTypeOK' /\ SetTypeOK' /\ StreamTypeOK' /\ MoverTypeOK' /\ FaultTypeOK'
BY DEF TypeOK, PublishTypeOK, SetTypeOK, StreamTypeOK, MoverTypeOK, FaultTypeOK

LEMMA FaultType ==
    ASSUME FaultTypeOK, NoFault \/ \E k \in FaultKinds, n \in Nat : FaultKills(k, n)
    PROVE  FaultTypeOK'
BY DelayAssumption DEF FaultTypeOK, NoFault, FaultKills

\* A fault strikes at the expense of the allowance.
LEMMA Strikes ==
    ASSUME FaultTypeOK, NEW k, NEW n \in Nat, FaultKills(k, n)
    PROVE  FaultTypeOK' /\ Struck \in Nat /\ Struck' = Struck + 1
BY DelayAssumption DEF FaultTypeOK, FaultKills, Struck

\* One mover moves on, and the others stay where they are.
LEMMA OneMover ==
    ASSUME MoverTypeOK, NEW t \in Movers,
           mpc' \in [Movers -> MoverStates], todo' \in [Movers -> SUBSET Delays],
           reading' \in [Movers -> Delays \union {NoDelay}],
           bag' \in [Movers -> SUBSET Msgs], hand' \in [Movers -> Msgs \union {NoMsg}],
           \A u \in Movers \ {t} : mpc'[u] = mpc[u] /\ bag'[u] = bag[u] /\ hand'[u] = hand[u],
           mpc'[t] \in {"add", "setid", "restore"} <=> hand'[t] # NoMsg,
           mpc'[t] = "move" => bag'[t] # {}
    PROVE  MoverTypeOK'
BY DEF MoverTypeOK

\* The same, for what the code assigns.
LEMMA MoverMoves ==
    ASSUME MoverTypeOK, NEW t \in Movers,
           NEW pc \in MoverStates, mpc' = [mpc EXCEPT ![t] = pc],
           todo' \in [Movers -> SUBSET Delays],
           reading' \in [Movers -> Delays \union {NoDelay}],
           NEW ms \in SUBSET Msgs, bag' = [bag EXCEPT ![t] = ms],
           NEW m \in Msgs \union {NoMsg}, hand' = [hand EXCEPT ![t] = m],
           pc \in {"add", "setid", "restore"} <=> m # NoMsg,
           pc = "move" => ms # {}
    PROVE  MoverTypeOK'
<1>1. /\ mpc \in [Movers -> MoverStates] /\ bag \in [Movers -> SUBSET Msgs]
      /\ hand \in [Movers -> Msgs \union {NoMsg}]
  BY DEF MoverTypeOK
<1>2. /\ mpc' \in [Movers -> MoverStates] /\ bag' \in [Movers -> SUBSET Msgs]
      /\ hand' \in [Movers -> Msgs \union {NoMsg}]
      /\ mpc'[t] = pc /\ bag'[t] = ms /\ hand'[t] = m
      /\ \A u \in Movers \ {t} : mpc'[u] = mpc[u] /\ bag'[u] = bag[u] /\ hand'[u] = hand[u]
  BY <1>1
<1> QED BY <1>2, OneMover

LEMMA InitTypes == Init => TypeOK
<1> SUFFICES ASSUME Init PROVE TypeOK
  OBVIOUS
<1>1. PublishTypeOK /\ SetTypeOK /\ StreamTypeOK /\ FaultTypeOK
  BY DelayAssumption DEF Init, PublishTypeOK, SetTypeOK, StreamTypeOK, FaultTypeOK
<1>2. MoverTypeOK
  BY DEF Init, MoverTypeOK, MoverStates
<1> QED BY <1>1, <1>2, TypeParts

LEMMA PublisherTypes ==
    ASSUME TypeOK, NEW m \in Msgs,
           PublishStep(m) \/ RegisterError(m) \/ PublishError(m) \/ Due(m)
    PROVE  TypeOK'
<1>1. PublishTypeOK /\ SetTypeOK /\ StreamTypeOK /\ MoverTypeOK /\ FaultTypeOK
  BY TypeParts
<1>2. UNCHANGED streamVars /\ UNCHANGED moverVars
  BY DEF PublishStep, Register, Publish, RegisterError, PublishError, Due
<1>3. StreamTypeOK' /\ MoverTypeOK'
  BY <1>1, <1>2 DEF streamVars, moverVars, StreamTypeOK, MoverTypeOK
<1>4. FaultTypeOK'
  <2>1. NoFault \/ (\E k \in FaultKinds, n \in Nat : FaultKills(k, n)) \/ UNCHANGED <<faults, deaths>>
    BY DEF PublishStep, Register, Publish, RegisterError, PublishError, Due, Fault, FaultKinds
  <2> QED BY <1>1, <2>1, FaultType DEF NoFault
<1>5. Queue(m) \in Queues /\ Delay(m) \in Delays /\ origin[m] \in Processes
  BY <1>1 DEF PublishTypeOK, Queue, Delay
<1>6. SAdd(m) => types' \in [Queues -> SUBSET Delays]
  BY <1>1, <1>5 DEF SAdd, PublishTypeOK
<1>7. \A pc \in {"new", "registered", "done", "failed"} :
         Called(m, pc) => call' \in [Msgs -> {"new", "registered", "done", "failed"}]
  BY <1>1 DEF Called, PublishTypeOK
<1>8. SetTypeOK'
  BY <1>1 DEF PublishStep, Register, Publish, RegisterError, PublishError, Due, Schedule,
              setVars, SetTypeOK
<1>9. PublishTypeOK'
  <2>1. CASE Register(m)
    BY <1>1, <1>5, <1>6, <1>7, <2>1 DEF Register, PublishTypeOK
  <2>2. CASE RegisterError(m)
    BY <1>1, <1>6, <1>7, <2>2 DEF RegisterError, PublishTypeOK
  <2>3. CASE Publish(m) \/ PublishError(m)
    BY <1>1, <1>7, <2>3 DEF Publish, PublishError, PublishTypeOK
  <2>4. CASE Due(m)
    BY <1>1, <2>4 DEF Due, publishVars, PublishTypeOK
  <2> QED BY <2>1, <2>2, <2>3, <2>4 DEF PublishStep
<1> QED BY <1>3, <1>4, <1>8, <1>9, TypeParts

LEMMA RestartTypes ==
    ASSUME TypeOK, NEW p \in Processes, Restart(p)
    PROVE  TypeOK'
<1>1. PublishTypeOK /\ SetTypeOK /\ StreamTypeOK /\ MoverTypeOK /\ FaultTypeOK
  BY TypeParts
<1>2. PublishTypeOK'
  BY <1>1 DEF Restart, PublishTypeOK
<1>3. SetTypeOK' /\ StreamTypeOK' /\ MoverTypeOK'
  BY <1>1 DEF Restart, setVars, streamVars, moverVars, SetTypeOK, StreamTypeOK, MoverTypeOK
<1>4. FaultTypeOK'
  BY <1>1, FaultType DEF Restart, Fault, FaultKinds
<1> QED BY <1>2, <1>3, <1>4, TypeParts

-----------------------------------------------------------------------------
(* What a mover does, as seen by the messages *)

\* The step of a mover t that leaves the publishers alone.
ByMover(t) ==
    /\ UNCHANGED publishVars
    /\ \A u \in Movers \ {t} : hand'[u] = hand[u] /\ mpc'[u] = mpc[u]

\* It takes nothing in hand and puts nothing down.
Looks(t) ==
    /\ NoFault /\ waiting' = waiting /\ copies' = copies
    /\ hand'[t] = NoMsg /\ mpc'[t] \notin {"add", "setid", "restore"} /\ hand[t] = NoMsg

Takes(t) ==
    /\ NoFault /\ copies' = copies /\ hand[t] = NoMsg
    /\ \E m \in waiting : /\ waiting' = waiting \ {m}
                          /\ hand'[t] = m /\ mpc'[t] = "add"

Adds(t) ==
    /\ NoFault /\ waiting' = waiting /\ mpc[t] = "add" /\ mpc'[t] = "setid"
    /\ hand[t] \in Msgs /\ hand'[t] = hand[t]
    /\ copies' = [copies EXCEPT ![hand[t]] = @ + 1]

\* An XADD or HSET throws, with or without its effect.
Fails(t) ==
    /\ \E k \in FaultKinds : Fault(k)
    /\ waiting' = waiting /\ mpc[t] \in {"add", "setid"} /\ mpc'[t] = "restore"
    /\ hand[t] \in Msgs /\ hand'[t] = hand[t]
    /\ \/ copies' = copies
       \/ mpc[t] = "add" /\ copies' = [copies EXCEPT ![hand[t]] = @ + 1]

\* It puts its message down: the HSET is done, or the ZADD of the catch block.
PutsDown(t) ==
    /\ NoFault /\ copies' = copies
    /\ hand[t] \in Msgs /\ hand'[t] = NoMsg /\ mpc'[t] \in {"poll", "move"}
    /\ \/ mpc[t] = "setid" /\ waiting' = waiting
       \/ mpc[t] = "restore" /\ waiting' = waiting \union {hand[t]}

Dies(t) ==
    /\ \E k \in FaultKinds : FaultKills(k, 1)
    /\ copies' = copies /\ hand'[t] = NoMsg /\ mpc'[t] = "dead"
    /\ \E m \in Msgs \union {NoMsg} : hand[t] \in {m, NoMsg} /\ waiting \ {m} \subseteq waiting'
    /\ \/ waiting' \subseteq waiting
       \/ mpc[t] = "restore" /\ hand[t] \in Msgs /\ waiting' = waiting \union {hand[t]}

MoverEffect(t) == Looks(t) \/ Takes(t) \/ Adds(t) \/ Fails(t) \/ PutsDown(t) \/ Dies(t)

LEMMA MoverSteps ==
    ASSUME TypeOK, NEW t \in Movers,
           MoverStep(t) \/ AddError(t) \/ SetIdError(t) \/ PollError(t)
    PROVE  TypeOK' /\ ByMover(t) /\ MoverEffect(t)
<1>1. PublishTypeOK /\ SetTypeOK /\ StreamTypeOK /\ MoverTypeOK /\ FaultTypeOK
  BY TypeParts
<1>2. UNCHANGED publishVars
  BY DEF MoverStep, Poll, LockDelay, ReadDelay, EndScan, Remove, Add, SetId, Restore,
         AddError, SetIdError, PollError
<1>3. PublishTypeOK'
  BY <1>1, <1>2 DEF publishVars, PublishTypeOK
<1>4. t[2] \in Queues
  BY DEF Movers
<1>5. /\ mpc \in [Movers -> MoverStates] /\ hand \in [Movers -> Msgs \union {NoMsg}]
      /\ todo \in [Movers -> SUBSET Delays] /\ reading \in [Movers -> Delays \union {NoDelay}]
      /\ bag \in [Movers -> SUBSET Msgs]
  BY <1>1 DEF MoverTypeOK
<1>6. /\ todo' = todo => todo' \in [Movers -> SUBSET Delays]
      /\ reading' = reading => reading' \in [Movers -> Delays \union {NoDelay}]
      /\ bag' = bag => bag' = [bag EXCEPT ![t] = bag[t]]
      /\ hand' = hand => hand' = [hand EXCEPT ![t] = hand[t]]
      /\ mpc' = mpc => mpc' = [mpc EXCEPT ![t] = mpc[t]]
  BY <1>5
<1>7. /\ mpc[t] \in {"add", "setid", "restore"} <=> hand[t] # NoMsg
      /\ mpc[t] = "move" => bag[t] # {}
      /\ todo[t] \in SUBSET Delays /\ reading[t] \in Delays \union {NoDelay}
      /\ bag[t] \in SUBSET Msgs /\ hand[t] \in Msgs \union {NoMsg} /\ mpc[t] \in MoverStates
  BY <1>1, <1>5 DEF MoverTypeOK
<1>8. ASSUME NEW pc \in MoverStates, NEW m, MGoto(t, pc), hand' = [hand EXCEPT ![t] = m]
      PROVE  ByMover(t) /\ mpc'[t] = pc /\ hand'[t] = m
  BY <1>2, <1>5, <1>8 DEF ByMover, MGoto
<1>9. UNCHANGED setVars => SetTypeOK' /\ waiting' = waiting
  BY <1>1 DEF setVars, SetTypeOK
<1>10. UNCHANGED streamVars => StreamTypeOK' /\ copies' = copies
  BY <1>1 DEF streamVars, StreamTypeOK
<1>11. NoFault => FaultTypeOK'
  BY <1>1, FaultType
<1>a. CASE Poll(t)
  <2>1. /\ MGoto(t, "scan") /\ "scan" \in MoverStates /\ types[t[2]] \in SUBSET Delays
        /\ todo' = [todo EXCEPT ![t] = types[t[2]]]
        /\ hand' = [hand EXCEPT ![t] = hand[t]] /\ hand[t] = NoMsg
    BY <1>1, <1>4, <1>6, <1>7, <1>a DEF Poll, PublishTypeOK, MoverStates
  <2>2. MoverTypeOK'
    <3>1. todo' \in [Movers -> SUBSET Delays]
      BY <1>5, <2>1
    <3>2. /\ reading' \in [Movers -> Delays \union {NoDelay}] /\ bag' = [bag EXCEPT ![t] = bag[t]]
          /\ mpc' = [mpc EXCEPT ![t] = "scan"]
      BY <1>6, <1>a, <2>1 DEF Poll, MGoto
    <3> QED BY <1>1, <1>7, <2>1, <3>1, <3>2, MoverMoves
  <2>3. ByMover(t) /\ Looks(t)
    BY <1>8, <1>9, <1>10, <1>a, <2>1 DEF Looks, Poll
  <2> QED BY <1>3, <1>9, <1>10, <1>11, <1>a, <2>2, <2>3, TypeParts DEF Poll, MoverEffect
<1>b. CASE LockDelay(t)
  <2>1. PICK d \in todo[t] :
          /\ todo' = [todo EXCEPT ![t] = @ \ {d}]
          /\ reading' = [reading EXCEPT ![t] = d] \/ UNCHANGED reading
    BY <1>b DEF LockDelay
  <2>2. /\ mpc' = mpc /\ hand' = hand /\ bag' = bag /\ mpc[t] = "scan" /\ hand[t] = NoMsg
        /\ MGoto(t, "scan") /\ "scan" \in MoverStates
    BY <1>6, <1>7, <1>b DEF LockDelay, MGoto, MoverStates
  <2>3. reading' \in [Movers -> Delays \union {NoDelay}] /\ todo' \in [Movers -> SUBSET Delays]
    BY <1>5, <1>6, <1>7, <2>1
  <2>4. MoverTypeOK'
    BY <1>1, <2>2, <2>3 DEF MoverTypeOK
  <2>5. ByMover(t) /\ Looks(t)
    BY <1>2, <1>9, <1>10, <1>b, <2>2 DEF Looks, LockDelay, ByMover
  <2> QED BY <1>3, <1>9, <1>10, <1>11, <1>b, <2>4, <2>5, TypeParts DEF LockDelay, MoverEffect
<1>c. CASE ReadDelay(t)
  <2>1. PICK found \in SUBSET Msgs : bag' = [bag EXCEPT ![t] = @ \union found]
    <3>1. Ready(t[2], reading[t]) \in SUBSET Msgs
      BY <1>1 DEF Ready, SetTypeOK
    <3> QED BY <1>c, <3>1 DEF ReadDelay
  <2>2. /\ mpc' = mpc /\ hand' = hand /\ todo' = todo /\ mpc[t] = "scan" /\ hand[t] = NoMsg
        /\ reading' = [reading EXCEPT ![t] = NoDelay]
        /\ MGoto(t, "scan") /\ "scan" \in MoverStates
    BY <1>6, <1>7, <1>c DEF ReadDelay, MGoto, MoverStates
  <2>3. MoverTypeOK'
    <3>1. bag' \in [Movers -> SUBSET Msgs] /\ reading' \in [Movers -> Delays \union {NoDelay}]
      BY <1>5, <2>1, <2>2
    <3>2. \A u \in Movers : mpc[u] = "move" => bag'[u] # {}
      <4>1. \A u \in Movers \ {t} : bag'[u] = bag[u]
        BY <1>5, <2>1
      <4> QED BY <1>1, <2>2, <4>1 DEF MoverTypeOK
    <3> QED BY <1>1, <2>2, <3>1, <3>2 DEF MoverTypeOK
  <2>4. ByMover(t) /\ Looks(t)
    BY <1>2, <1>9, <1>10, <1>c, <2>2 DEF Looks, ReadDelay, ByMover
  <2> QED BY <1>3, <1>9, <1>10, <1>11, <1>c, <2>3, <2>4, TypeParts DEF ReadDelay, MoverEffect
<1>d. CASE EndScan(t)
  <2>1. PICK pc \in {"poll", "move"} : MGoto(t, pc) /\ (pc = "move" => bag[t] # {})
    BY <1>d DEF EndScan
  <2>2. /\ hand' = [hand EXCEPT ![t] = hand[t]] /\ hand[t] = NoMsg /\ pc \in MoverStates
    BY <1>6, <1>7, <1>d, <2>1 DEF EndScan, MoverStates
  <2>3. MoverTypeOK'
    <3>1. /\ todo' \in [Movers -> SUBSET Delays] /\ reading' \in [Movers -> Delays \union {NoDelay}]
          /\ bag' = [bag EXCEPT ![t] = bag[t]] /\ mpc' = [mpc EXCEPT ![t] = pc]
      BY <1>6, <1>d, <2>1 DEF EndScan, MGoto
    <3> QED BY <1>1, <1>7, <2>1, <2>2, <3>1, MoverMoves
  <2>4. ByMover(t) /\ Looks(t)
    BY <1>8, <1>9, <1>10, <1>d, <2>1, <2>2 DEF Looks, EndScan
  <2> QED BY <1>3, <1>9, <1>10, <1>11, <1>d, <2>3, <2>4, TypeParts DEF EndScan, MoverEffect
<1>e. CASE Remove(t)
  <2>1. PICK m \in bag[t] : bag' = [bag EXCEPT ![t] = @ \ {m}] /\ (Skip(t, m) \/ Take(t, m))
    BY <1>e DEF Remove
  <2>2. m \in Msgs /\ m # NoMsg /\ hand[t] = NoMsg
    BY <1>7, <1>e, <2>1, DelayAssumption DEF Remove
  <2>3. /\ NoFault /\ UNCHANGED streamVars /\ UNCHANGED due
        /\ todo' = todo /\ reading' = reading
    BY <1>e DEF Remove
  <2>4. SetTypeOK'
    BY <1>1, <2>1, <2>3 DEF Skip, Take, SetTypeOK
  <2>5. CASE Skip(t, m)
    <3>1. PICK pc \in {"poll", "move"} : MGoto(t, pc) /\ (pc = "move" => bag[t] \ {m} # {})
      BY <2>1, <2>5 DEF Skip
    <3>2. hand' = [hand EXCEPT ![t] = NoMsg] /\ pc \in MoverStates /\ waiting' = waiting
      BY <1>6, <2>2, <2>5, <3>1 DEF Skip, MoverStates
    <3>3. MoverTypeOK'
      <4>1. /\ todo' \in [Movers -> SUBSET Delays] /\ reading' \in [Movers -> Delays \union {NoDelay}]
            /\ mpc' = [mpc EXCEPT ![t] = pc] /\ bag[t] \ {m} \in SUBSET Msgs
            /\ bag' = [bag EXCEPT ![t] = bag[t] \ {m}]
        BY <1>6, <1>7, <2>1, <2>3, <3>1 DEF MGoto
      <4> QED BY <1>1, <3>1, <3>2, <4>1, MoverMoves
    <3>4. ByMover(t) /\ Looks(t)
      BY <1>8, <1>10, <2>2, <2>3, <3>1, <3>2 DEF Looks
    <3> QED BY <1>3, <1>10, <1>11, <2>3, <2>4, <3>3, <3>4, TypeParts DEF MoverEffect
  <2>6. CASE Take(t, m)
    <3>1. /\ MGoto(t, "add") /\ "add" \in MoverStates /\ hand' = [hand EXCEPT ![t] = m]
          /\ m \in waiting /\ waiting' = waiting \ {m}
      BY <2>6 DEF Take, Hold, MoverStates
    <3>2. MoverTypeOK'
      <4>1. /\ todo' \in [Movers -> SUBSET Delays] /\ reading' \in [Movers -> Delays \union {NoDelay}]
            /\ mpc' = [mpc EXCEPT ![t] = "add"] /\ bag[t] \ {m} \in SUBSET Msgs
            /\ bag' = [bag EXCEPT ![t] = bag[t] \ {m}]
        BY <1>6, <1>7, <2>1, <2>3, <3>1 DEF MGoto
      <4> QED BY <1>1, <2>2, <3>1, <4>1, MoverMoves
    <3>3. ByMover(t) /\ Takes(t)
      BY <1>8, <1>10, <2>2, <2>3, <3>1 DEF Takes
    <3> QED BY <1>3, <1>10, <1>11, <2>3, <2>4, <3>2, <3>3, TypeParts DEF MoverEffect
  <2> QED BY <2>1, <2>5, <2>6
<1>12. hand[t] # NoMsg => hand[t] \in Msgs
  BY <1>7
<1>13. hand[t] \in Msgs => /\ XAdd(t) => StreamTypeOK' /\ copies' = [copies EXCEPT ![hand[t]] = @ + 1]
                           /\ HSetId(t) => StreamTypeOK' /\ copies' = copies
  BY <1>1 DEF XAdd, HSetId, StreamTypeOK
<1>f. CASE Add(t)
  <2>1. /\ MGoto(t, "setid") /\ "setid" \in MoverStates /\ XAdd(t) /\ hand[t] # NoMsg
        /\ hand' = [hand EXCEPT ![t] = hand[t]] /\ hand[t] \in Msgs /\ mpc[t] = "add"
    BY <1>6, <1>7, <1>12, <1>f DEF Add, MoverStates
  <2>2. MoverTypeOK'
    <3>1. /\ todo' \in [Movers -> SUBSET Delays] /\ reading' \in [Movers -> Delays \union {NoDelay}]
          /\ bag' = [bag EXCEPT ![t] = bag[t]] /\ mpc' = [mpc EXCEPT ![t] = "setid"]
      BY <1>6, <1>f, <2>1 DEF Add, MGoto
    <3> QED BY <1>1, <1>7, <2>1, <3>1, MoverMoves
  <2>3. ByMover(t) /\ Adds(t)
    BY <1>8, <1>9, <1>13, <1>f, <2>1 DEF Adds, Add
  <2> QED BY <1>3, <1>9, <1>11, <1>13, <1>f, <2>1, <2>2, <2>3, TypeParts DEF Add, MoverEffect
<1>14. ASSUME Continue(t)
       PROVE  \E pc \in {"poll", "move"} : /\ MGoto(t, pc) /\ pc \in MoverStates
                                           /\ pc = "move" => bag[t] # {}
                                           /\ hand' = [hand EXCEPT ![t] = NoMsg]
  BY <1>14 DEF Continue, Hold, MoverStates
<1>15. ASSUME Continue(t), NoFault, todo' = todo, reading' = reading, bag' = bag,
              hand[t] \in Msgs, copies' = copies,
              \/ mpc[t] = "setid" /\ waiting' = waiting
              \/ mpc[t] = "restore" /\ waiting' = waiting \union {hand[t]}
       PROVE  MoverTypeOK' /\ ByMover(t) /\ PutsDown(t)
  <2>1. PICK pc \in {"poll", "move"} : /\ MGoto(t, pc) /\ pc \in MoverStates
                                       /\ pc = "move" => bag[t] # {}
                                       /\ hand' = [hand EXCEPT ![t] = NoMsg]
    BY <1>14, <1>15
  <2>2. MoverTypeOK'
    BY <1>1, <1>6, <1>7, <1>15, <2>1, MoverMoves DEF MGoto
  <2>3. ByMover(t) /\ PutsDown(t)
    BY <1>8, <1>15, <2>1 DEF PutsDown
  <2> QED BY <2>2, <2>3
<1>g. CASE SetId(t)
  <2>1. hand[t] \in Msgs
    BY <1>7, <1>12, <1>g DEF SetId
  <2>2. MoverTypeOK' /\ ByMover(t) /\ PutsDown(t)
    <3>1. Continue(t) /\ NoFault /\ todo' = todo /\ reading' = reading /\ bag' = bag
      BY <1>g DEF SetId
    <3>2. copies' = copies
      BY <1>13, <1>g, <2>1 DEF SetId
    <3>3. mpc[t] = "setid" /\ waiting' = waiting
      BY <1>9, <1>g DEF SetId
    <3> QED BY <1>15, <2>1, <3>1, <3>2, <3>3
  <2> QED BY <1>3, <1>9, <1>11, <1>13, <1>g, <2>1, <2>2, TypeParts DEF SetId, MoverEffect
<1>h. CASE Restore(t)
  <2>1. hand[t] \in Msgs
    BY <1>7, <1>12, <1>h DEF Restore
  <2>2. MoverTypeOK' /\ ByMover(t) /\ PutsDown(t)
    BY <1>10, <1>15, <1>h, <2>1 DEF Restore
  <2>3. SetTypeOK'
    BY <1>1, <1>h, <2>1 DEF Restore, SetTypeOK
  <2> QED BY <1>3, <1>10, <1>11, <1>h, <2>2, <2>3, TypeParts DEF Restore, MoverEffect
<1>i. CASE AddError(t) \/ SetIdError(t)
  <2>1. /\ MGoto(t, "restore") /\ "restore" \in MoverStates
        /\ mpc[t] \in {"add", "setid"} /\ hand[t] # NoMsg /\ hand[t] \in Msgs
        /\ hand' = [hand EXCEPT ![t] = hand[t]] /\ UNCHANGED setVars
        /\ todo' = todo /\ reading' = reading /\ bag' = bag /\ Fault("MoveError")
    BY <1>6, <1>7, <1>12, <1>i DEF AddError, SetIdError, MoverStates
  <2>2. MoverTypeOK'
    BY <1>1, <1>6, <1>7, <2>1, MoverMoves DEF MGoto
  <2>3. /\ StreamTypeOK'
        /\ \/ copies' = copies
           \/ mpc[t] = "add" /\ copies' = [copies EXCEPT ![hand[t]] = @ + 1]
    BY <1>10, <1>13, <1>i, <2>1 DEF AddError, SetIdError
  <2>4. "MoveError" \in FaultKinds /\ FaultTypeOK'
    BY <1>1, <2>1, FaultType DEF Fault, FaultKinds
  <2>5. ByMover(t) /\ Fails(t)
    BY <1>8, <1>9, <2>1, <2>3, <2>4 DEF Fails
  <2> QED BY <1>3, <1>9, <2>1, <2>2, <2>3, <2>4, <2>5, TypeParts DEF MoverEffect
<1>j. CASE PollError(t)
  <2>1. /\ MGoto(t, "dead") /\ "dead" \in MoverStates /\ hand' = [hand EXCEPT ![t] = NoMsg]
        /\ todo' = [todo EXCEPT ![t] = {}] /\ reading' = [reading EXCEPT ![t] = NoDelay]
        /\ bag' = [bag EXCEPT ![t] = {}] /\ UNCHANGED streamVars /\ UNCHANGED due
        /\ FaultKills("PollError", 1)
    BY <1>j DEF PollError, Forget, Hold, MoverStates
  <2>2. MoverTypeOK'
    <3>1. /\ todo' \in [Movers -> SUBSET Delays] /\ reading' \in [Movers -> Delays \union {NoDelay}]
          /\ mpc' = [mpc EXCEPT ![t] = "dead"] /\ {} \in SUBSET Msgs
      BY <1>5, <2>1 DEF MGoto
    <3> QED BY <1>1, <2>1, <3>1, MoverMoves
  <2>3. "PollError" \in FaultKinds /\ 1 \in Nat /\ FaultTypeOK'
    BY <1>1, <2>1, FaultType DEF FaultKinds
  <2>4. \/ waiting' \subseteq waiting
        \/ mpc[t] = "restore" /\ hand[t] \in Msgs /\ waiting' = waiting \union {hand[t]}
    BY <1>7, <1>12, <1>j DEF PollError
  <2>7. \E m \in Msgs \union {NoMsg} : hand[t] \in {m, NoMsg} /\ waiting \ {m} \subseteq waiting'
    <3>1. CASE mpc[t] = "restore"
      BY <1>7, <1>12, <1>j, <3>1 DEF PollError
    <3>2. CASE mpc[t] # "restore"
      <4>1. hand[t] = NoMsg
        BY <1>7, <1>j, <3>2 DEF PollError
      <4>2. \E m \in Msgs \union {NoMsg} : waiting \ {m} \subseteq waiting'
        BY <1>7, <1>j, <3>2 DEF PollError
      <4> QED BY <4>1, <4>2
    <3> QED BY <3>1, <3>2
  <2>5. SetTypeOK'
    BY <1>1, <2>1, <2>4 DEF SetTypeOK
  <2>6. ByMover(t) /\ Dies(t)
    BY <1>8, <1>10, <2>1, <2>3, <2>4, <2>7 DEF Dies
  <2> QED BY <1>3, <1>10, <2>1, <2>2, <2>3, <2>5, <2>6, TypeParts DEF MoverEffect
<1> QED BY <1>a, <1>b, <1>c, <1>d, <1>e, <1>f, <1>g, <1>h, <1>i, <1>j DEF MoverStep

LEMMA CrashTypes ==
    ASSUME TypeOK, NEW s \in Servers, MoverCrash(s)
    PROVE  TypeOK'
<1>1. PublishTypeOK /\ SetTypeOK /\ StreamTypeOK /\ MoverTypeOK /\ FaultTypeOK
  BY TypeParts
<1>2. PublishTypeOK' /\ SetTypeOK' /\ StreamTypeOK'
  BY <1>1 DEF MoverCrash, publishVars, setVars, streamVars, PublishTypeOK, SetTypeOK, StreamTypeOK
<1>3. MoverTypeOK'
  BY <1>1 DEF MoverCrash, MoverTypeOK, MoverStates
<1>4. FaultTypeOK'
  <2>1. Cardinality(Queues) \in Nat
    BY FS_CardinalityType, DelayAssumption
  <2> QED BY <1>1, <2>1, FaultType DEF MoverCrash, FaultKinds
<1> QED BY <1>2, <1>3, <1>4, TypeParts

-----------------------------------------------------------------------------
(* Who moves a message, and how often *)

(***************************************************************************)
(* A message was added to its stream at most once more than faults have    *)
(* struck; while it waits, or is about to be added or restored, not more   *)
(* often than that; and not at all before its publish call schedules it.   *)
(***************************************************************************)
Unmoved(m) == m \notin waiting /\ copies[m] = 0 /\ \A t \in Movers : hand[t] # m

Budget ==
    /\ \A m \in Msgs : /\ copies[m] <= 1 + Struck
                       /\ m \in waiting => copies[m] <= Struck
                       /\ call[m] \in {"new", "registered"} => Unmoved(m)
    /\ \A t \in Movers : mpc[t] \in {"add", "restore"} => copies[hand[t]] <= Struck

(***************************************************************************)
(* The delay of a message that is registered, waits or is in hand is one   *)
(* the movers of its queue look at, and so is every delay a process knows. *)
(***************************************************************************)
Found ==
    Unshared =>
        /\ \A p \in Processes, m \in Msgs : Delay(m) \in known[p] => Delay(m) \in types[Queue(m)]
        /\ \A m \in Msgs : call[m] = "registered" \/ m \in waiting \/ InHand(m)
                               => Delay(m) \in types[Queue(m)]

DelayIInv == TypeOK /\ OneHand /\ Budget /\ Found

\* A step of a mover finds no message it had not found before.
LEMMA NothingNew ==
    ASSUME Found, UNCHANGED publishVars,
           \A m \in Msgs : m \in waiting' \/ InHand(m)' => m \in waiting \/ InHand(m)
    PROVE  Found'
BY DEF Found, publishVars, Unshared, Queue, Delay

LEMMA MoverKeeps ==
    ASSUME DelayIInv, NEW t \in Movers,
           MoverStep(t) \/ AddError(t) \/ SetIdError(t) \/ PollError(t)
    PROVE  DelayIInv'
<1>1. TypeOK /\ TypeOK' /\ ByMover(t) /\ MoverEffect(t)
  BY MoverSteps DEF DelayIInv
<1>2. /\ copies \in [Msgs -> Nat] /\ copies' \in [Msgs -> Nat] /\ FaultTypeOK
      /\ waiting \subseteq Msgs /\ waiting' \subseteq Msgs /\ call' = call
      /\ hand \in [Movers -> Msgs \union {NoMsg}] /\ hand' \in [Movers -> Msgs \union {NoMsg}]
      /\ \A u \in Movers : /\ mpc[u] \in {"add", "setid", "restore"} <=> hand[u] # NoMsg
                           /\ mpc'[u] \in {"add", "setid", "restore"} <=> hand'[u] # NoMsg
  BY <1>1 DEF TypeOK, ByMover, publishVars, FaultTypeOK
<1>3. /\ Struck \in Nat /\ Struck <= Struck' /\ Struck' \in Nat
      /\ NoFault => Struck' = Struck
      /\ (\E k \in FaultKinds, n \in Nat : FaultKills(k, n)) => Struck' = Struck + 1
  <2>1. Struck \in Nat
    BY <1>2, DelayAssumption DEF FaultTypeOK, Struck
  <2>2. NoFault => Struck' = Struck
    BY DEF NoFault, Struck
  <2>3. (\E k \in FaultKinds, n \in Nat : FaultKills(k, n)) => Struck' = Struck + 1
    BY <1>2, Strikes
  <2>4. NoFault \/ \E k \in FaultKinds, n \in Nat : FaultKills(k, n)
    BY <1>1 DEF MoverEffect, Looks, Takes, Adds, Fails, PutsDown, Dies, Fault
  <2> QED BY <2>1, <2>2, <2>3, <2>4
<1>4. \A u \in Movers \ {t} : hand'[u] = hand[u] /\ mpc'[u] = mpc[u]
  BY <1>1 DEF ByMover
<1>5. OneHand /\ Budget /\ Found
  BY DEF DelayIInv
<1>6. NoMsg \notin Msgs
  BY DelayAssumption
<1>7. /\ \A m \in Msgs : /\ copies[m] <= 1 + Struck
                         /\ m \in waiting => copies[m] <= Struck
                         /\ call[m] \in {"new", "registered"} => Unmoved(m)
      /\ \A u \in Movers : mpc[u] \in {"add", "restore"} => copies[hand[u]] <= Struck
  BY <1>5 DEF Budget
<1>8. \A u, v \in Movers : hand[u] # NoMsg => /\ hand[u] \in Msgs /\ hand[u] \notin waiting
                                              /\ u # v => hand[v] # hand[u]
  BY <1>2, <1>5 DEF OneHand
\* Where the new holdings come from.
<1>9. /\ \A m \in waiting' : m \in waiting \/ hand[t] = m
      /\ hand'[t] \in waiting \union {hand[t], NoMsg}
      /\ hand'[t] # NoMsg => hand'[t] \notin waiting'
      /\ \A m \in waiting' : hand[t] = m => hand'[t] # m
  <2>1. hand[t] # NoMsg => hand[t] \notin waiting
    BY <1>8
  <2>2. CASE Looks(t)
    BY <1>2, <1>6, <2>2 DEF Looks
  <2>3. CASE Takes(t)
    BY <2>3 DEF Takes
  <2>4. CASE Adds(t) \/ Fails(t)
    <3>1. waiting' = waiting /\ hand'[t] = hand[t]
      BY <2>4 DEF Adds, Fails
    <3> QED BY <1>2, <1>6, <2>1, <3>1
  <2>5. CASE PutsDown(t) \/ Dies(t)
    <3>1. hand'[t] = NoMsg /\ waiting' \subseteq waiting \union {hand[t]}
      BY <2>5 DEF PutsDown, Dies
    <3> QED BY <1>2, <1>6, <3>1
  <2> QED BY <1>1, <2>2, <2>3, <2>4, <2>5 DEF MoverEffect
<1>10. OneHand'
  <2>1. ASSUME NEW u \in Movers, NEW v \in Movers, hand'[u] # NoMsg
        PROVE  hand'[u] \notin waiting' /\ (u # v => hand'[v] # hand'[u])
    <3>1. CASE u = t
      BY <1>4, <1>8, <1>9, <2>1, <3>1
    <3>2. CASE u # t
      BY <1>4, <1>8, <1>9, <2>1, <3>2
    <3> QED BY <3>1, <3>2
  <2> QED BY <2>1 DEF OneHand
<1>11. Found'
  <2>1. ASSUME NEW m \in Msgs, m \in waiting' \/ InHand(m)'
        PROVE  m \in waiting \/ InHand(m)
    BY <1>4, <1>6, <1>9, <2>1 DEF InHand
  <2> QED BY <1>1, <1>5, <2>1, NothingNew DEF ByMover
<1>12. Budget'
  <2>1. ASSUME NEW m \in Msgs, call'[m] \in {"new", "registered"}  PROVE Unmoved(m)'
    <3>1. m \notin waiting /\ copies[m] = 0 /\ \A u \in Movers : hand[u] # m
      BY <1>2, <1>7, <2>1 DEF Unmoved
    <3>2. m \notin waiting' /\ \A u \in Movers : hand'[u] # m
      BY <1>4, <1>6, <1>9, <3>1
    <3>3. copies'[m] = copies[m]
      BY <1>1, <1>2, <3>1 DEF MoverEffect, Looks, Takes, Adds, Fails, PutsDown, Dies
    <3> QED BY <3>1, <3>2, <3>3 DEF Unmoved
  <2>2. SUFFICES /\ \A m \in Msgs : /\ copies'[m] <= 1 + Struck'
                                    /\ m \in waiting' => copies'[m] <= Struck'
                 /\ \A u \in Movers : mpc'[u] \in {"add", "restore"} => copies'[hand'[u]] <= Struck'
    BY <2>1 DEF Budget
  <2>3. CASE Looks(t)
    BY <1>2, <1>3, <1>4, <1>7, <2>3 DEF Looks
  <2>4. CASE Takes(t)
    BY <1>2, <1>3, <1>4, <1>7, <2>4 DEF Takes
  <2>5. CASE Adds(t) \/ (Fails(t) /\ copies' # copies)
    <3>1. /\ mpc[t] = "add" /\ waiting' = waiting /\ hand[t] \in Msgs /\ hand'[t] = hand[t]
          /\ copies' = [copies EXCEPT ![hand[t]] = @ + 1]
      BY <2>5 DEF Adds, Fails
    <3>2. /\ copies'[hand[t]] = copies[hand[t]] + 1 /\ copies[hand[t]] <= Struck
          /\ \A m \in Msgs \ {hand[t]} : copies'[m] = copies[m]
      BY <1>2, <1>7, <3>1
    <3>3. mpc'[t] = "setid" \/ (mpc'[t] = "restore" /\ Struck' = Struck + 1)
      BY <1>3, <2>5 DEF Adds, Fails, Fault
    <3>4. hand[t] \notin waiting /\ \A u \in Movers \ {t} : hand[u] # hand[t]
      BY <1>6, <1>8, <3>1
    <3>5. ASSUME NEW m \in Msgs
          PROVE  copies'[m] <= 1 + Struck' /\ (m \in waiting' => copies'[m] <= Struck')
      BY <1>2, <1>3, <1>7, <3>1, <3>2, <3>4
    <3>6. ASSUME NEW u \in Movers, mpc'[u] \in {"add", "restore"}
          PROVE  copies'[hand'[u]] <= Struck'
      <4>1. CASE u = t
        BY <1>2, <1>3, <3>1, <3>2, <3>3, <3>6, <4>1
      <4>2. CASE u # t
        <5>1. hand'[u] = hand[u] /\ mpc'[u] = mpc[u] /\ hand[u] \in Msgs /\ hand[u] # hand[t]
          BY <1>2, <1>4, <1>8, <3>4, <3>6, <4>2
        <5>2. copies[hand[u]] <= Struck
          BY <1>7, <3>6, <5>1
        <5> QED BY <1>2, <1>3, <3>2, <5>1, <5>2
      <4> QED BY <4>1, <4>2
    <3> QED BY <3>5, <3>6
  <2>6. CASE Fails(t) /\ copies' = copies
    <3>1. /\ hand[t] \in Msgs /\ hand'[t] = hand[t] /\ Struck' = Struck + 1
          /\ waiting' = waiting /\ copies[hand[t]] <= 1 + Struck
      BY <1>3, <1>7, <2>6 DEF Fails, Fault
    <3>2. \A u \in Movers : mpc'[u] \in {"add", "restore"} /\ u # t => copies[hand'[u]] <= Struck
      BY <1>4, <1>7
    <3>3. ASSUME NEW u \in Movers, mpc'[u] \in {"add", "restore"}
          PROVE  copies'[hand'[u]] <= Struck'
      <4>1. CASE u = t
        BY <1>2, <1>3, <2>6, <3>1, <4>1
      <4>2. CASE u # t
        <5>1. hand'[u] \in Msgs
          BY <1>2, <3>3
        <5> QED BY <1>2, <1>3, <2>6, <3>1, <3>2, <3>3, <4>2, <5>1
      <4> QED BY <4>1, <4>2
    <3> QED BY <1>2, <1>3, <1>7, <2>6, <3>1, <3>3
  <2>7. CASE PutsDown(t) \/ Dies(t)
    <3>1. /\ copies' = copies /\ mpc'[t] \notin {"add", "restore"}
          /\ \A m \in waiting' : m \in waiting \/ (mpc[t] = "restore" /\ m = hand[t])
      BY <2>7 DEF PutsDown, Dies
    <3>2. ASSUME NEW m \in Msgs
          PROVE  copies'[m] <= 1 + Struck' /\ (m \in waiting' => copies'[m] <= Struck')
      BY <1>2, <1>3, <1>7, <3>1
    <3>3. ASSUME NEW u \in Movers, mpc'[u] \in {"add", "restore"}
          PROVE  copies'[hand'[u]] <= Struck'
      <4>1. hand'[u] = hand[u] /\ mpc'[u] = mpc[u] /\ hand[u] \in Msgs
        BY <1>2, <1>4, <1>8, <3>1, <3>3
      <4> QED BY <1>2, <1>3, <1>7, <3>1, <3>3, <4>1
    <3> QED BY <3>2, <3>3
  <2> QED BY <1>1, <2>3, <2>4, <2>5, <2>6, <2>7 DEF MoverEffect
<1> QED BY <1>1, <1>10, <1>11, <1>12 DEF DelayIInv

LEMMA PublisherKeeps ==
    ASSUME DelayIInv, NEW m \in Msgs,
           PublishStep(m) \/ RegisterError(m) \/ PublishError(m) \/ Due(m)
    PROVE  DelayIInv'
<1>1. TypeOK /\ TypeOK' /\ OneHand /\ Budget /\ Found
  BY PublisherTypes DEF DelayIInv
<1>2. /\ hand' = hand /\ mpc' = mpc /\ copies' = copies /\ home' = home /\ origin' = origin
      /\ \A k \in Msgs \ {m} : (k \in waiting' <=> k \in waiting) /\ call'[k] = call[k]
      /\ waiting \subseteq waiting'
  BY <1>1 DEF PublishStep, Register, Publish, RegisterError, PublishError, Due, Schedule, Called,
              setVars, streamVars, moverVars, publishVars, TypeOK
<1>3. /\ call[m] = "registered" \/ (m \in waiting' <=> m \in waiting)
      /\ m \in waiting' /\ m \notin waiting => call'[m] \in {"done", "failed"}
      /\ call'[m] \in {"new", "registered"} => call[m] \in {"new", "registered"} /\ (m \in waiting' <=> m \in waiting)
  BY <1>1 DEF PublishStep, Register, Publish, RegisterError, PublishError, Due, Schedule, Called,
              setVars, publishVars, TypeOK
<1>4. Struck \in Nat /\ Struck <= Struck' /\ Struck' \in Nat /\ copies \in [Msgs -> Nat]
  <2>1. faults' = faults \/ Fault("PublishError")
    BY DEF PublishStep, Register, Publish, RegisterError, PublishError, Due, NoFault
  <2>2. FaultTypeOK
    BY <1>1, TypeParts
  <2>3. Fault("PublishError") => Struck \in Nat /\ Struck' = Struck + 1
    BY <2>2, Strikes DEF Fault
  <2>4. Struck \in Nat /\ (faults' = faults => Struck' = Struck)
    BY <2>2, DelayAssumption DEF FaultTypeOK, Struck
  <2>5. copies \in [Msgs -> Nat]
    BY <1>1 DEF TypeOK
  <2> QED BY <2>1, <2>3, <2>4, <2>5
<1>5. call[m] = "registered" => Unmoved(m)
  BY <1>1 DEF Budget
<1>6. waiting' \subseteq waiting \union {m} /\ waiting' \subseteq Msgs
  BY <1>1, <1>2 DEF TypeOK
<1>7. OneHand'
  <2>1. \A t \in Movers : hand[t] = m => (m \in waiting' => m \in waiting)
    BY <1>3, <1>5 DEF Unmoved
  <2> QED BY <1>1, <1>2, <1>6, <2>1 DEF OneHand
<1>8. Budget'
  <2>1. \A k \in Msgs : /\ copies'[k] <= 1 + Struck'
                        /\ k \in waiting' => copies'[k] <= Struck'
    <3>1. m \in waiting' /\ m \notin waiting => copies[m] = 0
      BY <1>3, <1>5 DEF Unmoved
    <3> QED BY <1>1, <1>2, <1>4, <1>6, <3>1 DEF Budget
  <2>2. ASSUME NEW k \in Msgs, call'[k] \in {"new", "registered"}  PROVE Unmoved(k)'
    <3>1. call[k] \in {"new", "registered"} /\ (k \in waiting' <=> k \in waiting)
      BY <1>2, <1>3, <2>2
    <3> QED BY <1>1, <1>2, <3>1 DEF Budget, Unmoved
  <2>3. ASSUME NEW t \in Movers, mpc'[t] \in {"add", "restore"}  PROVE copies'[hand'[t]] <= Struck'
    <3>1. hand[t] \in Msgs /\ copies[hand[t]] <= Struck
      BY <1>1, <1>2, <2>3 DEF Budget, TypeOK
    <3> QED BY <1>2, <1>4, <3>1
  <2> QED BY <2>1, <2>2, <2>3 DEF Budget
<1>9. Found'
  <2> SUFFICES ASSUME Unshared
               PROVE  /\ \A p \in Processes, k \in Msgs :
                            Delay(k) \in known'[p] => Delay(k) \in types'[Queue(k)]
                      /\ \A k \in Msgs : call'[k] = "registered" \/ k \in waiting' \/ InHand(k)
                                            => Delay(k) \in types'[Queue(k)]
    BY <1>2 DEF Found, Unshared, Queue, Delay, InHand
  <2>1. /\ \A p \in Processes, k \in Msgs : Delay(k) \in known[p] => Delay(k) \in types[Queue(k)]
        /\ \A k \in Msgs : call[k] = "registered" \/ k \in waiting \/ InHand(k)
                               => Delay(k) \in types[Queue(k)]
    BY <1>1 DEF Found
  <2>2. /\ Queue(m) \in Queues /\ Delay(m) \in Delays /\ origin[m] \in Processes
        /\ known \in [Processes -> SUBSET Delays] /\ types \in [Queues -> SUBSET Delays]
        /\ \A k \in Msgs : Queue(k) \in Queues
    BY <1>1 DEF TypeOK, Queue, Delay
  <2>3. \A q \in Queues : types[q] \subseteq types'[q]
    BY <2>2 DEF PublishStep, Register, Publish, RegisterError, PublishError, Due, SAdd, publishVars
  <2>4. ASSUME NEW p \in Processes, NEW k \in Msgs, Delay(k) \in known'[p]
        PROVE  Delay(k) \in types'[Queue(k)]
    <3>1. CASE Delay(k) \in known[p]
      BY <2>1, <2>2, <2>3, <3>1
    <3>2. CASE Delay(k) \notin known[p]
      <4>1. Register(m) /\ SAdd(m) /\ Delay(k) = Delay(m)
        BY <2>2, <2>4, <3>2
           DEF PublishStep, Register, Publish, RegisterError, PublishError, Due, publishVars
      <4>2. Queue(k) = Queue(m)
        BY <4>1 DEF Unshared
      <4> QED BY <2>2, <4>1, <4>2 DEF SAdd
    <3> QED BY <3>1, <3>2
  <2>5. ASSUME NEW k \in Msgs, call'[k] = "registered" \/ k \in waiting' \/ InHand(k)
        PROVE  Delay(k) \in types'[Queue(k)]
    <3>1. CASE call[k] = "registered" \/ k \in waiting \/ InHand(k)
      BY <2>1, <2>2, <2>3, <3>1
    <3>2. CASE ~(call[k] = "registered" \/ k \in waiting \/ InHand(k))
      <4>1. k = m /\ Register(m)
        BY <1>1, <1>2, <1>3, <2>5, <3>2
           DEF PublishStep, Register, Publish, RegisterError, PublishError, Due, Called, publishVars, TypeOK
      <4>2. CASE Delay(m) \in known[origin[m]]
        BY <2>1, <2>2, <2>3, <4>1, <4>2
      <4>3. CASE Delay(m) \notin known[origin[m]]
        BY <2>2, <4>1, <4>3 DEF Register, SAdd
      <4> QED BY <4>2, <4>3
    <3> QED BY <3>1, <3>2
  <2> QED BY <2>4, <2>5
<1> QED BY <1>1, <1>7, <1>8, <1>9 DEF DelayIInv

LEMMA RestartKeeps ==
    ASSUME DelayIInv, NEW p \in Processes, Restart(p)
    PROVE  DelayIInv'
<1>1. TypeOK /\ TypeOK' /\ OneHand /\ Budget /\ Found
  BY RestartTypes DEF DelayIInv
<1>2. /\ waiting' = waiting /\ copies' = copies /\ hand' = hand /\ mpc' = mpc
      /\ home' = home /\ types' = types
      /\ \A k \in Msgs : call'[k] = call[k] \/ call'[k] = "failed"
      /\ \A r \in Processes : known'[r] \subseteq known[r]
  BY <1>1 DEF Restart, setVars, streamVars, moverVars, TypeOK
<1>3. Struck \in Nat /\ Struck' \in Nat /\ Struck <= Struck' /\ copies \in [Msgs -> Nat]
  BY <1>1, DelayAssumption DEF Restart, Fault, FaultKills, Struck, TypeOK
<1>4. OneHand'
  BY <1>1, <1>2 DEF OneHand
<1>5. Budget'
  <2>1. \A t \in Movers : mpc[t] \in {"add", "restore"} => hand[t] \in Msgs
    BY <1>1 DEF TypeOK
  <2> QED BY <1>1, <1>2, <1>3, <2>1 DEF Budget, Unmoved
<1>6. Found'
  BY <1>1, <1>2 DEF Found, Unshared, Queue, Delay, InHand
<1> QED BY <1>1, <1>4, <1>5, <1>6 DEF DelayIInv

LEMMA CrashKeeps ==
    ASSUME DelayIInv, NEW s \in Servers, MoverCrash(s)
    PROVE  DelayIInv'
<1>1. TypeOK /\ TypeOK' /\ OneHand /\ Budget /\ Found
  BY CrashTypes DEF DelayIInv
<1>2. /\ UNCHANGED publishVars /\ call' = call /\ waiting' = waiting /\ copies' = copies
      /\ \A t \in Movers : \/ hand'[t] = hand[t] /\ mpc'[t] = mpc[t]
                           \/ hand'[t] = NoMsg /\ mpc'[t] = "poll"
  BY <1>1 DEF MoverCrash, publishVars, setVars, streamVars, TypeOK
<1>3. Struck \in Nat /\ Struck' \in Nat /\ Struck <= Struck' /\ copies \in [Msgs -> Nat]
  BY <1>1, DelayAssumption DEF MoverCrash, FaultKills, Struck, TypeOK
<1>4. OneHand'
  BY <1>1, <1>2 DEF OneHand
<1>5. Budget'
  <2>1. \A t \in Movers : mpc'[t] \in {"add", "restore"} =>
           hand'[t] \in Msgs /\ hand'[t] = hand[t] /\ mpc'[t] = mpc[t]
    BY <1>1, <1>2 DEF TypeOK
  <2>2. \A m \in Msgs : Unmoved(m) => Unmoved(m)'
    BY <1>2, DelayAssumption DEF Unmoved
  <2> QED BY <1>1, <1>2, <1>3, <2>1, <2>2 DEF Budget
<1>6. Found'
  <2>1. \A m \in Msgs : InHand(m)' => InHand(m)
    BY <1>2, DelayAssumption DEF InHand
  <2> QED BY <1>1, <1>2, <2>1, NothingNew
<1> QED BY <1>1, <1>4, <1>5, <1>6 DEF DelayIInv

-----------------------------------------------------------------------------

LEMMA InitDelay == Init => DelayIInv
<1> SUFFICES ASSUME Init PROVE DelayIInv
  OBVIOUS
<1>1. TypeOK
  BY InitTypes
<1>2. OneHand /\ Found
  BY DelayAssumption DEF Init, OneHand, Found, InHand
<1>3. Struck = 0 /\ \A m \in Msgs, t \in Movers : hand[t] # m
  BY DelayAssumption DEF Init, Struck
<1>4. Budget
  BY <1>3 DEF Init, Budget, Unmoved
<1> QED BY <1>1, <1>2, <1>4 DEF DelayIInv

LEMMA NextDelay ==
    ASSUME DelayIInv, [Next]_vars
    PROVE  DelayIInv'
<1>1. CASE UNCHANGED vars
  <2>1. TypeOK' /\ OneHand'
    BY <1>1 DEF DelayIInv, vars, publishVars, setVars, streamVars, moverVars, TypeOK, OneHand
  <2>2. Budget' /\ Found'
    BY <1>1 DEF DelayIInv, vars, publishVars, setVars, streamVars, moverVars, Budget, Unmoved,
                Struck, Found, Unshared, Queue, Delay, InHand
  <2> QED BY <2>1, <2>2 DEF DelayIInv
<1> QED BY <1>1, PublisherKeeps, RestartKeeps, MoverKeeps, CrashKeeps DEF Next

LEMMA DelayInductive == Spec => []DelayIInv
<1>1. DelayIInv /\ [Next]_vars => DelayIInv'
  BY NextDelay
<1> QED BY <1>1, InitDelay, PTL DEF Spec

(***************************************************************************)
(* The variables keep their types (PublishMessageAsync with a delay and    *)
(* ExecuteDelayQueuePollingAsync): a mover has a message in hand in the    *)
(* try block and nowhere else.                                             *)
(***************************************************************************)
THEOREM DelayTypes == Spec => []TypeOK
<1>1. DelayIInv => TypeOK
  BY DEF DelayIInv
<1> QED BY <1>1, DelayInductive, PTL

(***************************************************************************)
(* One mover at a time moves a message, for any number of servers and      *)
(* however the five-second polling lock expires: ZREM decides.             *)
(***************************************************************************)
THEOREM OneMoverAtATime == Spec => []OneHand
<1>1. DelayIInv => OneHand
  BY DEF DelayIInv
<1> QED BY <1>1, DelayInductive, PTL

(***************************************************************************)
(* A delayed message gets one entry in its stream and one more for each    *)
(* fault at most, however many servers compete for it.                     *)
(***************************************************************************)
THEOREM CopiesLimited == Spec => []CopiesBounded
<1>1. DelayIInv => CopiesBounded
  BY DEF DelayIInv, Budget, CopiesBounded
<1> QED BY <1>1, DelayInductive, PTL

(***************************************************************************)
(* While no two queues use the same delay, the sorted set of a waiting     *)
(* message is one its movers look at, whatever processes fail or restart.  *)
(***************************************************************************)
THEOREM WaitingIsFound == Spec => []RegisteredIfUnshared
<1>1. DelayIInv => RegisteredIfUnshared
  BY DEF DelayIInv, TypeOK, Found, RegisteredIfUnshared, Registered
<1> QED BY <1>1, DelayInductive, PTL

-----------------------------------------------------------------------------
(* What is lost *)

LossIInv ==
    /\ IsFiniteSet(Lost) /\ Cardinality(Lost) <= deaths
    /\ \A t \in Movers : mpc[t] = "setid" => copies[hand[t]] > 0

\* A set that grows by those of a set with at most n elements.
LEMMA GrowsByFew ==
    ASSUME NEW S, NEW T, NEW X, NEW d \in Nat, NEW n \in Nat,
           IsFiniteSet(S), Cardinality(S) <= d, IsFiniteSet(X), Cardinality(X) <= n,
           T \subseteq S \union X
    PROVE  IsFiniteSet(T) /\ Cardinality(T) <= d + n
<1> DEFINE U == S \union X
<1>1. IsFiniteSet(U) /\ Cardinality(U) = Cardinality(S) + Cardinality(X) - Cardinality(S \cap X)
  BY FS_Union
<1>2. IsFiniteSet(S \cap X)
  BY FS_Intersection
<1>3. Cardinality(S) \in Nat /\ Cardinality(X) \in Nat /\ Cardinality(S \cap X) \in Nat
      /\ Cardinality(U) \in Nat
  BY <1>1, <1>2, FS_CardinalityType
<1>4. T \in SUBSET U
  OBVIOUS
<1>5. IsFiniteSet(T) /\ Cardinality(T) <= Cardinality(U)
  BY <1>1, <1>4, FS_Subset
<1>6. Cardinality(T) \in Nat
  BY <1>5, FS_CardinalityType
<1> HIDE DEF U
<1> QED BY <1>1, <1>3, <1>5, <1>6

\* A set that does not grow.
LEMMA StaysFew ==
    ASSUME NEW S, NEW T, NEW d \in Nat, IsFiniteSet(S), Cardinality(S) <= d, T \subseteq S
    PROVE  IsFiniteSet(T) /\ Cardinality(T) <= d
<1>1. IsFiniteSet(T) /\ Cardinality(T) <= Cardinality(S)
  BY FS_Subset
<1>2. Cardinality(S) \in Nat /\ Cardinality(T) \in Nat
  BY <1>1, FS_CardinalityType
<1> QED BY <1>1, <1>2

\* A server has one mover for each queue, and so one message in hand.
LEMMA HandsOfServer ==
    ASSUME NEW s \in Servers
    PROVE  \E X : /\ IsFiniteSet(X) /\ Cardinality(X) <= Cardinality(Queues)
                  /\ Cardinality(Queues) \in Nat
                  /\ \A t \in Movers : t[1] = s => hand[t] \in X
<1> DEFINE f == [q \in Queues |-> hand[<<s, q>>]]
           X == {hand[<<s, q>>] : q \in Queues}
<1>1. f \in Surjection(Queues, X)
  BY DEF Surjection
<1>2. IsFiniteSet(X) /\ Cardinality(X) <= Cardinality(Queues) /\ Cardinality(Queues) \in Nat
  BY <1>1, FS_Surjection, FS_CardinalityType, DelayAssumption
<1>3. \A t \in Movers : t[1] = s => hand[t] \in X
  BY DEF Movers
<1> HIDE DEF X
<1> QED BY <1>2, <1>3

LEMMA LossKept ==
    ASSUME DelayIInv, DelayIInv', LossIInv, [Next]_vars
    PROVE  LossIInv'
<1>1. /\ TypeOK /\ TypeOK' /\ deaths \in Nat /\ copies \in [Msgs -> Nat] /\ NoMsg \notin Msgs
      /\ hand \in [Movers -> Msgs \union {NoMsg}] /\ hand' \in [Movers -> Msgs \union {NoMsg}]
      /\ waiting \subseteq Msgs
      /\ \A t \in Movers : mpc[t] \in {"add", "setid", "restore"} <=> hand[t] # NoMsg
  BY DelayAssumption DEF DelayIInv, TypeOK
<1>2. ASSUME copies' = copies, hand' = hand, mpc' = mpc, deaths' = deaths,
             \A m \in Msgs : /\ m \in waiting => m \in waiting'
                             /\ call'[m] = "done" => call[m] = "done" \/ m \in waiting'
      PROVE  LossIInv'
  <2>1. Lost' \subseteq Lost
    BY <1>2 DEF Lost, InHand
  <2> QED BY <1>1, <1>2, <2>1, StaysFew DEF LossIInv
<1>3. ASSUME NEW m \in Msgs, PublishStep(m) \/ RegisterError(m) \/ PublishError(m) \/ Due(m)
      PROVE  LossIInv'
  <2>1. /\ copies' = copies /\ hand' = hand /\ mpc' = mpc /\ deaths' = deaths
        /\ waiting \subseteq waiting'
    BY <1>1, <1>3
       DEF PublishStep, Register, Publish, RegisterError, PublishError, Due, Schedule,
           setVars, streamVars, moverVars, NoFault, Fault, FaultKills, TypeOK
  <2>2. \A k \in Msgs : call'[k] = "done" => call[k] = "done" \/ k \in waiting'
    BY <1>1, <1>3
       DEF PublishStep, Register, Publish, RegisterError, PublishError, Due, Schedule, Called,
           publishVars, TypeOK
  <2> QED BY <1>2, <2>1, <2>2
<1>4. ASSUME NEW p \in Processes, Restart(p)
      PROVE  LossIInv'
  <2>1. /\ copies' = copies /\ hand' = hand /\ mpc' = mpc /\ deaths' = deaths /\ waiting' = waiting
        /\ \A k \in Msgs : call'[k] = "done" => call[k] = "done"
    BY <1>1, <1>4 DEF Restart, setVars, streamVars, moverVars, Fault, FaultKills, TypeOK
  <2> QED BY <1>2, <2>1
<1>5. ASSUME NEW t \in Movers, MoverStep(t) \/ AddError(t) \/ SetIdError(t) \/ PollError(t)
      PROVE  LossIInv'
  <2>1. ByMover(t) /\ MoverEffect(t)
    BY <1>1, <1>5, MoverSteps
  <2>2. /\ \A u \in Movers \ {t} : hand'[u] = hand[u] /\ mpc'[u] = mpc[u]
        /\ call' = call
    BY <2>1 DEF ByMover, publishVars
  <2>3. \A u \in Movers : mpc[u] = "setid" => copies[hand[u]] > 0
    BY DEF LossIInv
  <2>4. /\ copies' \in [Msgs -> Nat] /\ \A m \in Msgs : copies[m] <= copies'[m]
        /\ Adds(t) => copies'[hand[t]] > 0
    BY <1>1, <2>1 DEF MoverEffect, Looks, Takes, Adds, Fails, PutsDown, Dies
  <2>5. ASSUME NEW u \in Movers, mpc'[u] = "setid"  PROVE copies'[hand'[u]] > 0
    <3>1. CASE u = t
      BY <2>1, <2>4, <2>5, <3>1 DEF MoverEffect, Looks, Takes, Adds, Fails, PutsDown, Dies
    <3>2. CASE u # t
      <4>1. hand'[u] = hand[u] /\ copies[hand[u]] > 0 /\ hand[u] \in Msgs
        BY <1>1, <2>2, <2>3, <2>5, <3>2
      <4> QED BY <1>1, <2>4, <4>1
    <3> QED BY <3>1, <3>2
  <2>6. CASE Dies(t)
    <3>1. PICK m \in Msgs \union {NoMsg} : hand[t] \in {m, NoMsg} /\ waiting \ {m} \subseteq waiting'
      BY <2>6 DEF Dies
    <3>2. deaths' = deaths + 1 /\ copies' = copies
      BY <2>6 DEF Dies, FaultKills
    <3>3. Lost' \subseteq Lost \union {m}
      <4>1. ASSUME NEW k \in Lost', k # m  PROVE k \in Lost
        <5>1. k \in Msgs /\ call[k] = "done" /\ k \notin waiting' /\ copies[k] = 0 /\ ~InHand(k)'
          BY <2>2, <3>2, <4>1 DEF Lost
        <5>2. k \notin waiting
          BY <3>1, <4>1, <5>1
        <5>3. ~InHand(k)
          BY <1>1, <2>2, <3>1, <4>1, <5>1 DEF InHand
        <5> QED BY <5>1, <5>2, <5>3 DEF Lost
      <4> QED BY <4>1
    <3>4. IsFiniteSet({m}) /\ Cardinality({m}) <= 1
      <4>1. IsFiniteSet({m}) /\ Cardinality({m}) = 1
        BY FS_Singleton
      <4> QED BY <4>1
    <3>5. IsFiniteSet(Lost') /\ Cardinality(Lost') <= deaths'
      BY <1>1, <3>2, <3>3, <3>4, GrowsByFew DEF LossIInv
    <3> QED BY <2>5, <3>5 DEF LossIInv
  <2>7. CASE ~Dies(t)
    <3>1. deaths' = deaths
      BY <1>1, <2>1, <2>7 DEF MoverEffect, Looks, Takes, Adds, Fails, PutsDown, NoFault, Fault, FaultKills
    <3>2. Lost' \subseteq Lost
      <4>1. ASSUME NEW k \in Lost'  PROVE k \in Lost
        <5>1. k \in Msgs /\ call[k] = "done" /\ k \notin waiting' /\ copies'[k] = 0 /\ ~InHand(k)'
          BY <2>2, <4>1 DEF Lost
        <5>2. copies[k] = 0
          BY <1>1, <2>4, <5>1
        <5>3. hand'[t] # k
          BY <5>1 DEF InHand
        <5>4. hand[t] # k
          BY <1>1, <2>1, <2>3, <2>7, <5>1, <5>2, <5>3
             DEF MoverEffect, Looks, Takes, Adds, Fails, PutsDown
        <5>5. ~InHand(k)
          BY <2>2, <5>1, <5>4 DEF InHand
        <5>6. k \notin waiting
          BY <2>1, <2>7, <5>1, <5>3 DEF MoverEffect, Looks, Takes, Adds, Fails, PutsDown
        <5> QED BY <5>1, <5>2, <5>5, <5>6 DEF Lost
      <4> QED BY <4>1
    <3>3. IsFiniteSet(Lost') /\ Cardinality(Lost') <= deaths'
      BY <1>1, <3>1, <3>2, StaysFew DEF LossIInv
    <3> QED BY <2>5, <3>3 DEF LossIInv
  <2> QED BY <2>6, <2>7
<1>6. ASSUME NEW s \in Servers, MoverCrash(s)
      PROVE  LossIInv'
  <2>1. PICK X : /\ IsFiniteSet(X) /\ Cardinality(X) <= Cardinality(Queues)
                 /\ Cardinality(Queues) \in Nat
                 /\ \A t \in Movers : t[1] = s => hand[t] \in X
    BY HandsOfServer
  <2>3. /\ deaths' = deaths + Cardinality(Queues) /\ copies' = copies /\ waiting' = waiting /\ call' = call
        /\ \A t \in Movers : IF t[1] = s THEN hand'[t] = NoMsg /\ mpc'[t] = "poll"
                                         ELSE hand'[t] = hand[t] /\ mpc'[t] = mpc[t]
    BY <1>6 DEF MoverCrash, FaultKills, streamVars, setVars, publishVars
  <2>5. Lost' \subseteq Lost \union X
    <3>1. ASSUME NEW k \in Lost', k \notin X  PROVE k \in Lost
      <4>1. k \in Msgs /\ call[k] = "done" /\ k \notin waiting /\ copies[k] = 0 /\ ~InHand(k)'
        BY <2>3, <3>1 DEF Lost
      <4>2. ~InHand(k)
        BY <2>1, <2>3, <3>1, <4>1 DEF InHand
      <4> QED BY <4>1, <4>2 DEF Lost
    <3> QED BY <3>1
  <2>6. IsFiniteSet(Lost') /\ Cardinality(Lost') <= deaths'
    BY <1>1, <2>1, <2>3, <2>5, GrowsByFew DEF LossIInv
  <2> QED BY <2>3, <2>6 DEF LossIInv
<1>7. CASE UNCHANGED vars
  BY <1>2, <1>7 DEF vars, publishVars, setVars, streamVars, moverVars
<1> QED BY <1>3, <1>4, <1>5, <1>6, <1>7 DEF Next

(***************************************************************************)
(* An accepted message is lost only with a mover that dies between its     *)
(* ZREM and its XADD, one message for each: the queue loses no more delayed*)
(* messages than movers died, whatever the others find, race for, add or   *)
(* restore.                                                                *)
(***************************************************************************)
THEOREM LossLimited == Spec => []LossBounded
<1>1. Init => LossIInv
  <2> SUFFICES ASSUME Init PROVE LossIInv
    OBVIOUS
  <2>1. Lost = {} /\ deaths = 0 /\ \A t \in Movers : mpc[t] # "setid"
    BY DEF Init, Lost
  <2> QED BY <2>1, FS_EmptySet DEF LossIInv
<1>2. DelayIInv /\ DelayIInv' /\ [Next]_vars /\ LossIInv => LossIInv'
  BY LossKept
<1>3. LossIInv => LossBounded
  BY DEF LossIInv, LossBounded
<1> QED BY <1>1, <1>2, <1>3, DelayInductive, PTL DEF Spec
-----------------------------------------------------------------------------
(* What the field Id names *)

\* The messages whose field Id names another entry than their last.
Misnamed == {m \in Msgs : m \notin waiting /\ ~InHand(m) /\ stored[m] # copies[m]}

MisnamedFew == IsFiniteSet(Misnamed) /\ Cardinality(Misnamed) <= deaths

\* Only the HSET of a mover changes an Id, to that of the entry it added.
StoredEffect(t) ==
    \/ stored' = stored /\ ~(mpc[t] = "setid" /\ PutsDown(t))
    \/ /\ mpc[t] = "setid" /\ copies' = copies
       /\ stored' = [stored EXCEPT ![hand[t]] = copies[hand[t]]]

LEMMA StoredSteps ==
    ASSUME TypeOK, NEW t \in Movers,
           MoverStep(t) \/ AddError(t) \/ SetIdError(t) \/ PollError(t)
    PROVE  StoredEffect(t)
<1>1. \A pc \in MoverStates : MGoto(t, pc) => mpc'[t] = pc
  BY DEF MGoto, TypeOK
<1>2. CASE SetId(t)
  BY <1>2 DEF SetId, HSetId, StoredEffect
<1>3. CASE SetIdError(t)
  <2>1. mpc[t] = "setid" /\ mpc'[t] = "restore" /\ (HSetId(t) \/ UNCHANGED streamVars)
    BY <1>1, <1>3 DEF SetIdError, MoverStates
  <2> QED BY <2>1 DEF HSetId, streamVars, PutsDown, StoredEffect
<1>4. CASE Poll(t) \/ LockDelay(t) \/ ReadDelay(t) \/ EndScan(t) \/ Remove(t) \/ Restore(t) \/ PollError(t)
  <2>1. mpc[t] # "setid" /\ UNCHANGED streamVars
    BY <1>4 DEF Poll, LockDelay, ReadDelay, EndScan, Remove, Restore, PollError
  <2> QED BY <2>1 DEF streamVars, StoredEffect
<1>5. CASE Add(t) \/ AddError(t)
  <2>1. mpc[t] = "add" /\ stored' = stored
    BY <1>5 DEF Add, AddError, XAdd, streamVars
  <2> QED BY <2>1 DEF StoredEffect
<1> QED BY <1>2, <1>3, <1>4, <1>5 DEF MoverStep

LEMMA MisnamedKept ==
    ASSUME DelayIInv, DelayIInv', MisnamedFew, [Next]_vars
    PROVE  MisnamedFew'
<1>1. /\ TypeOK /\ deaths \in Nat /\ NoMsg \notin Msgs
      /\ copies \in [Msgs -> Nat] /\ stored \in [Msgs -> Nat]
      /\ hand \in [Movers -> Msgs \union {NoMsg}] /\ waiting \subseteq Msgs
  BY DelayAssumption DEF DelayIInv, TypeOK
<1>2. IsFiniteSet(Misnamed) /\ Cardinality(Misnamed) <= deaths
  BY DEF MisnamedFew
<1>3. ASSUME Misnamed' \subseteq Misnamed, deaths' = deaths
      PROVE  MisnamedFew'
  BY <1>1, <1>2, <1>3, StaysFew DEF MisnamedFew
<1>4. ASSUME UNCHANGED <<streamVars, hand, deaths>>, waiting \subseteq waiting'
      PROVE  MisnamedFew'
  BY <1>3, <1>4 DEF Misnamed, InHand, streamVars
<1>5. ASSUME NEW m \in Msgs, PublishStep(m) \/ RegisterError(m) \/ PublishError(m) \/ Due(m)
      PROVE  MisnamedFew'
  BY <1>1, <1>4, <1>5
     DEF PublishStep, Register, Publish, RegisterError, PublishError, Due, Schedule,
         setVars, moverVars, NoFault, Fault, FaultKills
<1>6. ASSUME NEW p \in Processes, Restart(p)
      PROVE  MisnamedFew'
  BY <1>1, <1>4, <1>6 DEF Restart, setVars, moverVars, Fault, FaultKills
<1>7. ASSUME NEW t \in Movers, MoverStep(t) \/ AddError(t) \/ SetIdError(t) \/ PollError(t)
      PROVE  MisnamedFew'
  <2>1. ByMover(t) /\ MoverEffect(t) /\ StoredEffect(t)
    BY <1>1, <1>7, MoverSteps, StoredSteps
  <2>2. \A u \in Movers \ {t} : hand'[u] = hand[u]
    BY <2>1 DEF ByMover
  <2>3. \A k \in Msgs : hand[t] # k => copies'[k] = copies[k] /\ stored'[k] = stored[k]
    <3>1. \A k \in Msgs : hand[t] # k => copies'[k] = copies[k]
      BY <1>1, <2>1 DEF MoverEffect, Looks, Takes, Adds, Fails, PutsDown, Dies
    <3>2. \A k \in Msgs : hand[t] # k => stored'[k] = stored[k]
      BY <1>1, <2>1 DEF StoredEffect
    <3> QED BY <3>1, <3>2
  <2>4. CASE Dies(t)
    <3>1. PICK m \in Msgs \union {NoMsg} : hand[t] \in {m, NoMsg} /\ waiting \ {m} \subseteq waiting'
      BY <2>4 DEF Dies
    <3>2. deaths' = deaths + 1
      BY <2>4 DEF Dies, FaultKills
    <3>3. Misnamed' \subseteq Misnamed \union {m}
      <4>1. ASSUME NEW k \in Misnamed', k # m  PROVE k \in Misnamed
        <5>1. k \in Msgs /\ k \notin waiting' /\ stored'[k] # copies'[k] /\ ~InHand(k)'
          BY <4>1 DEF Misnamed
        <5>2. k \notin waiting /\ hand[t] # k
          BY <1>1, <3>1, <4>1, <5>1
        <5>3. ~InHand(k)
          BY <2>2, <5>1, <5>2 DEF InHand
        <5> QED BY <2>3, <5>1, <5>2, <5>3 DEF Misnamed
      <4> QED BY <4>1
    <3>4. IsFiniteSet({m}) /\ Cardinality({m}) <= 1
      <4>1. IsFiniteSet({m}) /\ Cardinality({m}) = 1
        BY FS_Singleton
      <4> QED BY <4>1
    <3> QED BY <1>1, <1>2, <3>2, <3>3, <3>4, GrowsByFew DEF MisnamedFew
  <2>5. CASE ~Dies(t)
    <3>1. deaths' = deaths
      BY <1>1, <2>1, <2>5 DEF MoverEffect, Looks, Takes, Adds, Fails, PutsDown, NoFault, Fault, FaultKills
    <3>2. ASSUME NEW k \in Misnamed'  PROVE k \in Misnamed
      <4>1. k \in Msgs /\ k \notin waiting' /\ stored'[k] # copies'[k] /\ ~InHand(k)'
        BY <3>2 DEF Misnamed
      <4>2. hand'[t] # k
        BY <4>1 DEF InHand
      <4>3. hand[t] # k
        <5>1. CASE PutsDown(t) /\ mpc[t] = "setid"
          BY <1>1, <2>1, <4>1, <5>1 DEF StoredEffect
        <5>2. CASE ~(PutsDown(t) /\ mpc[t] = "setid")
          BY <1>1, <2>1, <2>5, <4>1, <4>2, <5>2
             DEF MoverEffect, Looks, Takes, Adds, Fails, PutsDown
        <5> QED BY <5>1, <5>2
      <4>4. ~InHand(k)
        BY <2>2, <4>1, <4>3 DEF InHand
      <4>5. k \notin waiting
        BY <2>1, <2>5, <4>1, <4>2 DEF MoverEffect, Looks, Takes, Adds, Fails, PutsDown
      <4> QED BY <2>3, <4>1, <4>3, <4>4, <4>5 DEF Misnamed
    <3> QED BY <1>3, <3>1, <3>2
  <2> QED BY <2>4, <2>5
<1>8. ASSUME NEW s \in Servers, MoverCrash(s)
      PROVE  MisnamedFew'
  <2>1. PICK X : /\ IsFiniteSet(X) /\ Cardinality(X) <= Cardinality(Queues)
                 /\ Cardinality(Queues) \in Nat
                 /\ \A t \in Movers : t[1] = s => hand[t] \in X
    BY HandsOfServer
  <2>2. /\ deaths' = deaths + Cardinality(Queues)
        /\ copies' = copies /\ stored' = stored /\ waiting' = waiting
        /\ \A t \in Movers : t[1] # s => hand'[t] = hand[t]
    BY <1>8 DEF MoverCrash, FaultKills, streamVars, setVars
  <2>3. ASSUME NEW k \in Misnamed', k \notin X  PROVE k \in Misnamed
    <3>1. k \in Msgs /\ k \notin waiting /\ stored[k] # copies[k] /\ ~InHand(k)'
      BY <2>2, <2>3 DEF Misnamed
    <3>2. ~InHand(k)
      BY <2>1, <2>2, <2>3, <3>1 DEF InHand
    <3> QED BY <3>1, <3>2 DEF Misnamed
  <2>4. Misnamed' \subseteq Misnamed \union X
    BY <2>3
  <2> QED BY <1>1, <1>2, <2>1, <2>2, <2>4, GrowsByFew DEF MisnamedFew
<1>9. CASE UNCHANGED vars
  BY <1>4, <1>9 DEF vars, setVars, moverVars
<1> QED BY <1>5, <1>6, <1>7, <1>8, <1>9 DEF Next

(***************************************************************************)
(* The field Id of a message that nobody moves names the last entry that   *)
(* was added for it, whatever XADD and HSET were repeated after an error;  *)
(* no more messages are excepted than movers died.                         *)
(***************************************************************************)
THEOREM IdsAreLast == Spec => []StoredIdIsLast
<1>1. Init => MisnamedFew
  <2> SUFFICES ASSUME Init PROVE MisnamedFew
    OBVIOUS
  <2>1. Misnamed = {} /\ deaths = 0
    BY DEF Init, Misnamed
  <2> QED BY <2>1, FS_EmptySet DEF MisnamedFew
<1>2. DelayIInv /\ DelayIInv' /\ [Next]_vars /\ MisnamedFew => MisnamedFew'
  BY MisnamedKept
<1>3. MisnamedFew => StoredIdIsLast
  BY DEF MisnamedFew, Misnamed, StoredIdIsLast
<1> QED BY <1>1, <1>2, <1>3, DelayInductive, PTL DEF Spec
=============================================================================
