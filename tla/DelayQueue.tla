----------------------------- MODULE DelayQueue -----------------------------
(***************************************************************************)
(* Delayed messages.  PublishMessageAsync(queueName, message, delayTime)   *)
(* puts a message into the sorted set of its queue and delay; on every     *)
(* server a task per delay queue moves the messages that are due to the    *)
(* stream (ExecuteDelayQueuePollingAsync).                                 *)
(*                                                                         *)
(* The sorted sets of all queues and delays are one set of messages, each  *)
(* with a home; a stream is represented by how often a message was added.  *)
(* Scores are abstracted to whether they have passed: the order in which a *)
(* mover works off what it found is left open.                             *)
(***************************************************************************)
EXTENDS Naturals, FiniteSets

CONSTANTS
    Msgs,       \* the delayed messages
    Queues,     \* the delay queues
    Delays,     \* the delays in use
    Processes,  \* the publishing processes, each with a static list of delays
    Servers,    \* the consuming servers, each with one mover per queue
    NoMsg,      \* no message in hand
    NoDelay,    \* no sorted set being read
    Prefetch,   \* PrefetchCount, the limit of ZRANGEBYSCORE
    Faults,     \* the kinds of fault that may strike (see FaultKinds)
    MaxFaults   \* BOUND: how many faults may strike in a behaviour

FaultKinds ==
    { "PublishError",   \* a Redis call of the publisher throws
      "Restart",        \* a publishing process is started again
      "MoveError",      \* the XADD or the HSET of a mover throws
      "PollError",      \* a Redis call of a mover outside its try block throws
      "MoverCrash" }    \* the server of a mover dies, and is started again

ASSUME DelayAssumption ==
    /\ Faults \subseteq FaultKinds /\ MaxFaults \in Nat /\ Prefetch \in Nat \ {0}
    /\ NoMsg \notin Msgs /\ NoDelay \notin Delays /\ IsFiniteSet(Queues)

VARIABLES
    home,       \* the queue and the delay each message is published to
    origin,     \* the process that publishes it
    known,      \* _delaySecondsList of each process, a static field
    types,      \* the set DelayTimeType of each queue
    call,       \* where the publish call of each message stands
    waiting,    \* the messages in the sorted sets
    due,        \* the messages whose score the clock has passed
    copies,     \* how often each message was added to its stream
    stored,     \* the entry that the field Id of the message names
    mpc,        \* where each mover stands
    todo,       \* the delays it has still to look at
    reading,    \* the delay whose polling lock it holds
    bag,        \* messageMemberBag: what it found due
    hand,       \* the message it is moving
    faults,     \* how many faults may still strike
    deaths      \* history: how many movers have died

publishVars == <<home, origin, known, types, call>>
setVars     == <<waiting, due>>
streamVars  == <<copies, stored>>
moverVars   == <<mpc, todo, reading, bag, hand>>
vars        == <<publishVars, setVars, streamVars, moverVars, faults, deaths>>

Movers == Servers \X Queues
Queue(m) == home[m][1]
Delay(m) == home[m][2]

Init ==
    /\ home \in [Msgs -> Queues \X Delays]
    /\ origin \in [Msgs -> Processes]
    /\ known = [p \in Processes |-> {}]
    /\ types = [q \in Queues |-> {}]
    /\ call = [m \in Msgs |-> "new"]
    /\ waiting = {} /\ due = {}
    /\ copies = [m \in Msgs |-> 0] /\ stored = [m \in Msgs |-> 0]
    /\ mpc = [t \in Movers |-> "poll"]
    /\ todo = [t \in Movers |-> {}]
    /\ reading = [t \in Movers |-> NoDelay]
    /\ bag = [t \in Movers |-> {}]
    /\ hand = [t \in Movers |-> NoMsg]
    /\ faults = MaxFaults /\ deaths = 0

\* A fault of the given kind strikes, or does not; it kills n movers.
FaultKills(kind, n) ==
    /\ kind \in Faults /\ faults > 0
    /\ faults' = faults - 1 /\ deaths' = deaths + n

Fault(kind) == FaultKills(kind, 0)
NoFault     == UNCHANGED <<faults, deaths>>

-----------------------------------------------------------------------------
(* Publishing *)

Called(m, where) == call' = [call EXCEPT ![m] = where]

\* SADD of the delay to DelayTimeType of the queue.
SAdd(m) == types' = [types EXCEPT ![Queue(m)] = @ \union {Delay(m)}]

\* The lock block: the delay is registered unless the process has seen it.
Register(m) ==
    /\ call[m] = "new"
    /\ IF Delay(m) \in known[origin[m]]
         THEN UNCHANGED <<known, types>>
         ELSE /\ SAdd(m)
              /\ known' = [known EXCEPT ![origin[m]] = @ \union {Delay(m)}]
    /\ Called(m, "registered")
    /\ NoFault
    /\ UNCHANGED <<home, origin, setVars, streamVars, moverVars>>

\* Mistake: the process remembers the delay before the SADD.
RegisterErrorKnown(m) ==
    /\ call[m] = "new" /\ Delay(m) \notin known[origin[m]]
    /\ Fault("PublishError")
    /\ SAdd(m) \/ UNCHANGED types
    /\ known' = [known EXCEPT ![origin[m]] = @ \union {Delay(m)}]
    /\ Called(m, "failed")
    /\ UNCHANGED <<home, origin, setVars, streamVars, moverVars>>

\* The SADD throws, before or after Redis executed it.
RegisterError(m) ==
    /\ call[m] = "new" /\ Delay(m) \notin known[origin[m]]
    /\ Fault("PublishError")
    /\ SAdd(m) \/ UNCHANGED types
    /\ Called(m, "failed")
    /\ UNCHANGED <<home, origin, known, setVars, streamVars, moverVars>>

\* The MULTI: ZADD, the index sets and the metadata without an Id.
Schedule(m) == waiting' = waiting \union {m} /\ UNCHANGED due

Publish(m) ==
    /\ call[m] = "registered"
    /\ Schedule(m)
    /\ Called(m, "done")
    /\ NoFault
    /\ UNCHANGED <<home, origin, known, types, streamVars, moverVars>>

\* The MULTI throws, before or after Redis executed it.
PublishError(m) ==
    /\ call[m] = "registered"
    /\ Fault("PublishError")
    /\ Schedule(m) \/ UNCHANGED setVars
    /\ Called(m, "failed")
    /\ UNCHANGED <<home, origin, known, types, streamVars, moverVars>>

\* The process is started again: its list is empty, its calls are gone.
Restart(p) ==
    /\ Fault("Restart")
    /\ known' = [known EXCEPT ![p] = {}]
    /\ call' = [m \in Msgs |-> IF origin[m] = p /\ call[m] = "registered"
                                 THEN "failed" ELSE call[m]]
    /\ UNCHANGED <<home, origin, types, setVars, streamVars, moverVars>>

\* The delay of a message is over.
Due(m) ==
    /\ m \in waiting \ due
    /\ due' = due \union {m}
    /\ UNCHANGED <<publishVars, waiting, streamVars, moverVars, faults, deaths>>

-----------------------------------------------------------------------------
(* Moving *)

MGoto(t, pc) == mpc' = [mpc EXCEPT ![t] = pc]
Hold(t, m)   == hand' = [hand EXCEPT ![t] = m]

\* SMEMBERS DelayTimeType; with no delay registered the mover sleeps.
Poll(t) ==
    /\ mpc[t] = "poll" /\ types[t[2]] # {}
    /\ todo' = [todo EXCEPT ![t] = types[t[2]]]
    /\ MGoto(t, "scan")
    /\ NoFault
    /\ UNCHANGED <<publishVars, setVars, streamVars, reading, bag, hand>>

\* The polling lock of a queue and a delay: taken when it is free or its five
\* seconds are over, given up on when another mover holds it all the time.
Locked(t, d) == \E u \in Movers : u[2] = t[2] /\ reading[u] = d

LockDelay(t) ==
    /\ mpc[t] = "scan" /\ reading[t] = NoDelay
    /\ \E d \in todo[t] :
          /\ todo' = [todo EXCEPT ![t] = @ \ {d}]
          /\ \/ reading' = [reading EXCEPT ![t] = d]
             \/ Locked(t, d) /\ UNCHANGED reading
    /\ NoFault
    /\ UNCHANGED <<publishVars, setVars, streamVars, mpc, bag, hand>>

\* ZRANGEBYSCORE up to the present, Prefetch members at most; Unlock.
Ready(q, d) == {m \in waiting \intersect due : home[m] = <<q, d>>}

ReadDelay(t) ==
    /\ mpc[t] = "scan" /\ reading[t] # NoDelay
    /\ LET ready == Ready(t[2], reading[t])
       IN  \E found \in SUBSET ready :
             /\ \/ found = ready /\ Cardinality(ready) <= Prefetch
                \/ Cardinality(found) = Prefetch
             /\ bag' = [bag EXCEPT ![t] = @ \union found]
    /\ reading' = [reading EXCEPT ![t] = NoDelay]
    /\ NoFault
    /\ UNCHANGED <<publishVars, setVars, streamVars, mpc, todo, hand>>

\* Mistake: the bag is worked off although it is empty.
EndScanEmpty(t) ==
    /\ mpc[t] = "scan" /\ reading[t] = NoDelay /\ todo[t] = {}
    /\ MGoto(t, "move")
    /\ NoFault
    /\ UNCHANGED <<publishVars, setVars, streamVars, todo, reading, bag, hand>>

\* All delays are read.  The bag is worked off, or the mover sleeps.
EndScan(t) ==
    /\ mpc[t] = "scan" /\ reading[t] = NoDelay /\ todo[t] = {}
    /\ MGoto(t, IF bag[t] = {} THEN "poll" ELSE "move")
    /\ NoFault
    /\ UNCHANGED <<publishVars, setVars, streamVars, todo, reading, bag, hand>>

\* Mistake: the result of ZREM is ignored.
RemoveUnchecked(t) ==
    /\ mpc[t] = "move"
    /\ \E m \in bag[t] :
          /\ bag' = [bag EXCEPT ![t] = @ \ {m}]
          /\ waiting' = waiting \ {m}
          /\ MGoto(t, "add") /\ Hold(t, m)
    /\ NoFault
    /\ UNCHANGED <<publishVars, due, streamVars, todo, reading>>

\* ZREM of the next message.  Whoever removed it moves it; a message another
\* mover has removed is skipped.
Skip(t, m) ==
    /\ m \notin waiting
    /\ MGoto(t, IF bag[t] = {m} THEN "poll" ELSE "move")
    /\ UNCHANGED <<waiting, hand>>

Take(t, m) ==
    /\ m \in waiting
    /\ waiting' = waiting \ {m}
    /\ MGoto(t, "add") /\ Hold(t, m)

Remove(t) ==
    /\ mpc[t] = "move"
    /\ \E m \in bag[t] :
          /\ bag' = [bag EXCEPT ![t] = @ \ {m}]
          /\ Skip(t, m) \/ Take(t, m)
    /\ NoFault
    /\ UNCHANGED <<publishVars, due, streamVars, todo, reading>>

XAdd(t)  == copies' = [copies EXCEPT ![hand[t]] = @ + 1] /\ UNCHANGED stored
HSetId(t) == stored' = [stored EXCEPT ![hand[t]] = copies[hand[t]]] /\ UNCHANGED copies

Add(t) ==
    /\ mpc[t] = "add"
    /\ XAdd(t)
    /\ MGoto(t, "setid")
    /\ NoFault
    /\ UNCHANGED <<publishVars, setVars, todo, reading, bag, hand>>

\* The end of the loop body: the next message, or the next poll.
Continue(t) == /\ MGoto(t, IF bag[t] = {} THEN "poll" ELSE "move")
            /\ Hold(t, NoMsg)

SetId(t) ==
    /\ mpc[t] = "setid"
    /\ HSetId(t)
    /\ Continue(t)
    /\ NoFault
    /\ UNCHANGED <<publishVars, setVars, todo, reading, bag>>

\* The XADD or the HSET throws, before or after Redis executed it.
AddError(t) ==
    /\ mpc[t] = "add"
    /\ Fault("MoveError")
    /\ XAdd(t) \/ UNCHANGED streamVars
    /\ MGoto(t, "restore")
    /\ UNCHANGED <<publishVars, setVars, todo, reading, bag, hand>>

SetIdError(t) ==
    /\ mpc[t] = "setid"
    /\ Fault("MoveError")
    /\ HSetId(t) \/ UNCHANGED streamVars
    /\ MGoto(t, "restore")
    /\ UNCHANGED <<publishVars, setVars, todo, reading, bag, hand>>

\* Mistake: the catch block only logs.
RestoreNothing(t) ==
    /\ mpc[t] = "restore"
    /\ Continue(t)
    /\ NoFault
    /\ UNCHANGED <<publishVars, setVars, streamVars, todo, reading, bag>>

\* The catch block: ZADD with the old score.
Restore(t) ==
    /\ mpc[t] = "restore"
    /\ waiting' = waiting \union {hand[t]}
    /\ Continue(t)
    /\ NoFault
    /\ UNCHANGED <<publishVars, due, streamVars, todo, reading, bag>>

\* What a mover that ends leaves behind.
Forget(t) ==
    /\ todo' = [todo EXCEPT ![t] = {}]
    /\ reading' = [reading EXCEPT ![t] = NoDelay]
    /\ bag' = [bag EXCEPT ![t] = {}]
    /\ Hold(t, NoMsg)

\* A Redis call outside the try block throws, before or after Redis executed
\* it: nobody catches the exception and the task has ended for good.
PollError(t) ==
    /\ mpc[t] \in {"poll", "scan", "move", "restore"}
    /\ FaultKills("PollError", 1)
    /\ \/ UNCHANGED waiting
       \/ mpc[t] = "move" /\ \E m \in bag[t] : waiting' = waiting \ {m}
       \/ mpc[t] = "restore" /\ waiting' = waiting \union {hand[t]}
    /\ MGoto(t, "dead")
    /\ Forget(t)
    /\ UNCHANGED <<publishVars, due, streamVars>>

\* The server dies and is started again, with movers for all its queues.
MoverCrash(s) ==
    /\ FaultKills("MoverCrash", Cardinality(Queues))
    /\ mpc' = [t \in Movers |-> IF t[1] = s THEN "poll" ELSE mpc[t]]
    /\ todo' = [t \in Movers |-> IF t[1] = s THEN {} ELSE todo[t]]
    /\ reading' = [t \in Movers |-> IF t[1] = s THEN NoDelay ELSE reading[t]]
    /\ bag' = [t \in Movers |-> IF t[1] = s THEN {} ELSE bag[t]]
    /\ hand' = [t \in Movers |-> IF t[1] = s THEN NoMsg ELSE hand[t]]
    /\ UNCHANGED <<publishVars, setVars, streamVars>>

-----------------------------------------------------------------------------

PublishStep(m) == Register(m) \/ Publish(m)

MoverStep(t) ==
    \/ Poll(t) \/ LockDelay(t) \/ ReadDelay(t) \/ EndScan(t)
    \/ Remove(t) \/ Add(t) \/ SetId(t) \/ Restore(t)

Next ==
    \/ \E m \in Msgs : PublishStep(m) \/ RegisterError(m) \/ PublishError(m) \/ Due(m)
    \/ \E p \in Processes : Restart(p)
    \/ \E t \in Movers : MoverStep(t) \/ AddError(t) \/ SetIdError(t) \/ PollError(t)
    \/ \E s \in Servers : MoverCrash(s)

Spec == Init /\ [][Next]_vars

\* Publish calls go on, delays pass, and a mover that is alive goes on.
Fairness ==
    /\ \A m \in Msgs : WF_vars(PublishStep(m)) /\ WF_vars(Due(m))
    /\ \A t \in Movers : WF_vars(MoverStep(t))

FairSpec == Spec /\ Fairness

-----------------------------------------------------------------------------

MoverStates == {"poll", "scan", "move", "add", "setid", "restore", "dead"}

TypeOK ==
    /\ home \in [Msgs -> Queues \X Delays] /\ origin \in [Msgs -> Processes]
    /\ known \in [Processes -> SUBSET Delays] /\ types \in [Queues -> SUBSET Delays]
    /\ call \in [Msgs -> {"new", "registered", "done", "failed"}]
    /\ waiting \subseteq Msgs /\ due \subseteq Msgs
    /\ copies \in [Msgs -> Nat] /\ stored \in [Msgs -> Nat]
    /\ mpc \in [Movers -> MoverStates]
    /\ todo \in [Movers -> SUBSET Delays] /\ reading \in [Movers -> Delays \union {NoDelay}]
    /\ bag \in [Movers -> SUBSET Msgs] /\ hand \in [Movers -> Msgs \union {NoMsg}]
    /\ \A t \in Movers : /\ mpc[t] \in {"add", "setid", "restore"} <=> hand[t] # NoMsg
                         /\ mpc[t] = "move" => bag[t] # {}
    /\ faults \in 0 .. MaxFaults /\ deaths \in Nat

Struck == MaxFaults - faults

InHand(m) == \E t \in Movers : hand[t] = m

\* Accepted, and neither in a sorted set nor in a stream nor on its way.
Lost == {m \in Msgs : call[m] = "done" /\ m \notin waiting /\ copies[m] = 0 /\ ~InHand(m)}

(***************************************************************************)
(* A message in a sorted set will be found: its delay is among those the   *)
(* movers of its queue look at.                                            *)
(***************************************************************************)
Registered == \A m \in waiting : Delay(m) \in types[Queue(m)]

(***************************************************************************)
(* The same, provided that no two queues use the same delay, whatever the  *)
(* publishing processes do: the list of known delays is per process, and a *)
(* process that fails or is restarted registers the delay again.           *)
(***************************************************************************)
Unshared == \A m, n \in Msgs : Delay(m) = Delay(n) => Queue(m) = Queue(n)

RegisteredIfUnshared == Unshared => Registered

(***************************************************************************)
(* One mover at a time has a message in hand, and none that is waiting:    *)
(* ZREM decides who moves it.                                              *)
(***************************************************************************)
OneHand ==
    \A t, u \in Movers : hand[t] # NoMsg =>
        /\ hand[t] \notin waiting
        /\ t # u => hand[u] # hand[t]

(***************************************************************************)
(* An accepted message is lost only when a mover dies between its ZREM and *)
(* its XADD: one message for each mover that died, whatever the others do. *)
(***************************************************************************)
LossBounded == Cardinality(Lost) <= deaths

(***************************************************************************)
(* A message is moved once, and once more for each failure that made a     *)
(* mover restore it.                                                       *)
(***************************************************************************)
CopiesBounded == \A m \in Msgs : copies[m] <= 1 + Struck

(***************************************************************************)
(* When nobody is moving a message, its field Id names the last entry      *)
(* added, which is the one an acknowledgement by id must hit.  A mover     *)
(* that dies between the XADD and the HSET leaves one message without.     *)
(***************************************************************************)
StoredIdIsLast ==
    Cardinality({m \in Msgs : m \notin waiting /\ ~InHand(m) /\ stored[m] # copies[m]}) <= deaths

(***************************************************************************)
(* Every delayed message that was accepted eventually reaches its stream,  *)
(* unless a mover has died, or two queues use the same delay.              *)
(***************************************************************************)
EventuallyMoved ==
    \A m \in Msgs : Unshared /\ call[m] = "done" ~> copies[m] > 0 \/ deaths > 0
=============================================================================
