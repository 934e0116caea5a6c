--------------------------- MODULE ServerRegistry ---------------------------
(***************************************************************************)
(* The registry the dashboard shows: every server process registers its    *)
(* consumers once, when it starts, and then writes a heartbeat every 20 s  *)
(* and removes the nodes and consumers of servers it takes for dead        *)
(* (ConsumerBackgroundService, ExecuteAsync and RunLiveServerAsync).       *)
(*                                                                         *)
(* A server's name holds its process id: a restart is another server.      *)
(* Time passes in heartbeat periods.                                       *)
(***************************************************************************)
EXTENDS Naturals, FiniteSets

CONSTANTS
    Servers,    \* the server processes
    Consumers,  \* the consumers each of them registers
    Expire,     \* after how many periods a heartbeat is too old; 6 in the code
    Stalling,   \* the servers that may be paused in the middle of a round
    MaxFaults   \* BOUND: how many processes die or heartbeats fail

ASSUME RegistryAssumption ==
    Expire \in Nat \ {0} /\ Stalling \subseteq Servers /\ MaxFaults \in Nat

VARIABLES
    toAdd,      \* the consumers a server has yet to register
    hpc,        \* where the heartbeat task stands; "ended" after an exception
    nodes,      \* ServerNodes: the servers that have a heartbeat there
    age,        \* how old that heartbeat is, Expire being too old
    consumers,  \* ConsumerList: pairs of a server and a consumer
    serverNodes,    \* per server: the nodes it has read
    readAge,        \* per server: how old those heartbeats are by now
    consumerList,   \* per server: the consumers it has read
    expireConsumerList,     \* per server: those it will remove
    faults,     \* how many faults may still strike
    lapsed,     \* history, per server: whose heartbeat was missing or too old
                \* at some time since the server's round began
    paused      \* history: the servers that let a period pass in their round

localVars == <<serverNodes, readAge, consumerList, expireConsumerList>>
vars == <<toAdd, hpc, nodes, age, consumers, localVars, faults, lapsed, paused>>

TaskStates == {"new", "beat", "nodes", "list", "expired", "hdel", "srem", "sleep", "ended"}
Alive(s) == hpc[s] \notin {"new", "ended"}

Init ==
    /\ toAdd = [s \in Servers |-> {}] /\ hpc = [s \in Servers |-> "new"]
    /\ nodes = {} /\ age = [s \in Servers |-> 0] /\ consumers = {}
    /\ serverNodes = [s \in Servers |-> {}]
    /\ readAge = [s \in Servers |-> [t \in Servers |-> 0]]
    /\ consumerList = [s \in Servers |-> {}]
    /\ expireConsumerList = [s \in Servers |-> {}]
    /\ faults = MaxFaults /\ lapsed = [s \in Servers |-> {}] /\ paused = {}

HGoto(s, l) == hpc' = [hpc EXCEPT ![s] = l]

\* The consumers of a list whose names start with the name of a server.
OwnedBy(list, ts) == {c \in list : c[1] \in ts}

TooOld(a) == a >= Expire

-----------------------------------------------------------------------------

\* ExecuteAsync starts the heartbeat task and registers the consumers.
Start(s) ==
    /\ hpc[s] = "new"
    /\ HGoto(s, "beat")
    /\ toAdd' = [toAdd EXCEPT ![s] = Consumers]
    /\ UNCHANGED <<nodes, age, consumers, localVars, faults, lapsed, paused>>

Register(s) ==
    /\ \E c \in toAdd[s] :
          /\ toAdd' = [toAdd EXCEPT ![s] = @ \ {c}]
          /\ consumers' = consumers \union {<<s, c>>}
    /\ UNCHANGED <<hpc, nodes, age, localVars, faults, lapsed, paused>>

\* HSET of the heartbeat.  The round begins.
Beat(s) ==
    /\ hpc[s] = "beat"
    /\ nodes' = nodes \union {s}
    /\ age' = [age EXCEPT ![s] = 0]
    /\ lapsed' = [lapsed EXCEPT ![s] = {t \in Servers \ {s} : t \notin nodes \/ TooOld(age[t])}]
    /\ paused' = paused \ {s}
    /\ HGoto(s, "nodes")
    /\ UNCHANGED <<toAdd, consumers, localVars, faults>>

\* HGETALL of the nodes.
ReadNodes(s) ==
    /\ hpc[s] = "nodes"
    /\ serverNodes' = [serverNodes EXCEPT ![s] = nodes]
    /\ readAge' = [readAge EXCEPT ![s] = age]
    /\ HGoto(s, "list")
    /\ UNCHANGED <<toAdd, nodes, age, consumers, consumerList, expireConsumerList, faults, lapsed, paused>>

\* SMEMBERS of the consumers.
ReadConsumers(s) ==
    /\ hpc[s] = "list"
    /\ consumerList' = [consumerList EXCEPT ![s] = consumers]
    /\ HGoto(s, "expired")
    /\ UNCHANGED <<toAdd, nodes, age, consumers, serverNodes, readAge,
                   expireConsumerList, faults, lapsed, paused>>

\* Mistake: a heartbeat is too old one period early.
ExpiredEarly(s, t) == TooOld(readAge[s][t] + 1)

\* x.Value < DateTime.Now.AddMinutes(-2), evaluated anew at each use.
Expired(s, t) == TooOld(readAge[s][t])

\* Mistake: only the consumers of expired nodes are removed.
FindExpiredNodesOnly(s) ==
    /\ hpc[s] = "expired"
    /\ expireConsumerList' = [expireConsumerList EXCEPT ![s] = {}]
    /\ HGoto(s, IF \E t \in serverNodes[s] : Expired(s, t) THEN "hdel" ELSE "srem")
    /\ UNCHANGED <<toAdd, nodes, age, consumers, serverNodes, readAge,
                   consumerList, faults, lapsed, paused>>

\* The consumers without a node, and whether a node has expired.
FindExpired(s) ==
    /\ hpc[s] = "expired"
    /\ expireConsumerList' =
          [expireConsumerList EXCEPT ![s] = OwnedBy(consumerList[s], Servers \ serverNodes[s])]
    /\ HGoto(s, IF \E t \in serverNodes[s] : Expired(s, t) THEN "hdel" ELSE "srem")
    /\ UNCHANGED <<toAdd, nodes, age, consumers, serverNodes, readAge,
                   consumerList, faults, lapsed, paused>>

\* The foreach over the nodes that have expired by the time it gets to them:
\* HDEL, whatever the node's heartbeat is by now.
DeleteNode(s) ==
    /\ hpc[s] = "hdel"
    /\ \E t \in serverNodes[s] :
          /\ serverNodes' = [serverNodes EXCEPT ![s] = @ \ {t}]
          /\ IF Expired(s, t)
               THEN /\ nodes' = nodes \ {t}
                    /\ expireConsumerList' =
                          [expireConsumerList EXCEPT ![s] = @ \union OwnedBy(consumerList[s], {t})]
                    /\ lapsed' = [u \in Servers |-> IF u = s THEN lapsed[u] ELSE lapsed[u] \union {t}]
               ELSE UNCHANGED <<nodes, expireConsumerList, lapsed>>
          /\ IF serverNodes[s] = {t} THEN HGoto(s, "srem") ELSE UNCHANGED hpc
    /\ UNCHANGED <<toAdd, age, consumers, readAge, consumerList, faults, paused>>

\* SREM, and Task.Delay of 20 s.
RemoveConsumers(s) ==
    /\ hpc[s] = "srem"
    /\ consumers' = consumers \ expireConsumerList[s]
    /\ expireConsumerList' = [expireConsumerList EXCEPT ![s] = {}]
    /\ HGoto(s, "sleep")
    /\ UNCHANGED <<toAdd, nodes, age, serverNodes, readAge, consumerList, faults, lapsed, paused>>

-----------------------------------------------------------------------------

\* No try block: an exception of a Redis call ends the task, not the server.
HeartbeatError(s) ==
    /\ hpc[s] \in {"beat", "nodes", "list", "hdel", "srem"}
    /\ faults > 0 /\ faults' = faults - 1
    /\ HGoto(s, "ended")
    /\ UNCHANGED <<toAdd, nodes, age, consumers, localVars, lapsed, paused>>

\* The process dies, or ExecuteAsync throws out of SADD.
Crash(s) ==
    /\ Alive(s)
    /\ faults > 0 /\ faults' = faults - 1
    /\ HGoto(s, "ended")
    /\ toAdd' = [toAdd EXCEPT ![s] = {}]
    /\ UNCHANGED <<nodes, age, consumers, localVars, lapsed, paused>>

\* Mistake: the heartbeat is written before the loop.
TickPastBeat ==
    /\ \A s \in Servers \ Stalling : hpc[s] \in {"new", "sleep", "ended"} /\ toAdd[s] = {}
    /\ LET older(a) == IF a < Expire THEN a + 1 ELSE a
       IN  /\ age' = [t \in Servers |-> older(age[t])]
           /\ readAge' = [s \in Servers |-> [t \in Servers |-> older(readAge[s][t])]]
    /\ hpc' = [s \in Servers |-> IF hpc[s] = "sleep" THEN "nodes" ELSE hpc[s]]
    /\ lapsed' = [s \in Servers |-> lapsed[s] \union {t \in nodes : TooOld(age'[t])}]
    /\ paused' = paused \union {s \in Servers : hpc[s] \notin {"new", "sleep", "ended"}}
    /\ UNCHANGED <<toAdd, nodes, consumers, serverNodes, consumerList,
                   expireConsumerList, faults>>

\* A heartbeat period passes.  Who does not stall has finished its round.
Tick ==
    /\ \A s \in Servers \ Stalling : hpc[s] \in {"new", "sleep", "ended"} /\ toAdd[s] = {}
    /\ LET older(a) == IF a < Expire THEN a + 1 ELSE a
       IN  /\ age' = [t \in Servers |-> older(age[t])]
           /\ readAge' = [s \in Servers |-> [t \in Servers |-> older(readAge[s][t])]]
    /\ hpc' = [s \in Servers |-> IF hpc[s] = "sleep" THEN "beat" ELSE hpc[s]]
    /\ lapsed' = [s \in Servers |-> lapsed[s] \union {t \in nodes : TooOld(age'[t])}]
    /\ paused' = paused \union {s \in Servers : hpc[s] \notin {"new", "sleep", "ended"}}
    /\ UNCHANGED <<toAdd, nodes, consumers, serverNodes, consumerList,
                   expireConsumerList, faults>>

HeartbeatStep(s) ==
    \/ Beat(s) \/ ReadNodes(s) \/ ReadConsumers(s) \/ FindExpired(s)
    \/ DeleteNode(s) \/ RemoveConsumers(s)

Next ==
    \/ \E s \in Servers : \/ Start(s) \/ Register(s) \/ HeartbeatStep(s)
                          \/ HeartbeatError(s) \/ Crash(s)
    \/ Tick

Spec == Init /\ [][Next]_vars

\* The tasks go on, the clock runs.  A server need not be started.
Fairness ==
    /\ \A s \in Servers : WF_vars(Register(s)) /\ WF_vars(HeartbeatStep(s))
    /\ WF_vars(Tick)

FairSpec == Spec /\ Fairness

-----------------------------------------------------------------------------

(***************************************************************************)
(* Who removes a consumer has a reason: its server had no heartbeat, or    *)
(* one that was too old, at some time since the remover's round began.     *)
(* Nodes and consumers are read one after the other and the age of a node  *)
(* is judged later still, so a round with a pause in it is excluded.       *)
(***************************************************************************)
OnlyLapsedRemoved ==
    \A s \in Servers \ paused : \A c \in expireConsumerList[s] :
        Alive(s) => c[1] \in lapsed[s]

(***************************************************************************)
(* The node of a server that beats in time is deleted by nobody, except in *)
(* a round with a pause in it, which judges by heartbeats it read before.  *)
(***************************************************************************)
StaysListed ==
    [][ \A t \in Servers \ Stalling :
            Alive(t) /\ t \in nodes /\ t \notin nodes' => \E s \in paused : hpc[s] = "hdel" ]_vars

(***************************************************************************)
(* What a server without heartbeats leaves behind is removed while another *)
(* one beats, although who removes a node may die before it removes the    *)
(* consumers, and a server may die before its first heartbeat.             *)
(***************************************************************************)
DeadForgotten ==
    \A s \in Servers :
        <>[](hpc[s] = "ended" /\ toAdd[s] = {}) /\ (\E t \in Servers : <>[]Alive(t))
            => <>[](s \notin nodes /\ OwnedBy(consumers, {s}) = {})

(***************************************************************************)
(* A server that beats is listed again and again, although others may      *)
(* delete its node when it, or they, were paused.                          *)
(***************************************************************************)
BeatingIsListed ==
    \A s \in Servers : <>[]Alive(s) => []<>(s \in nodes)
=============================================================================
