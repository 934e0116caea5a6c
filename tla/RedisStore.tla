----------------------------- MODULE RedisStore -----------------------------
(***************************************************************************)
(* The Redis state every part of Yarkool.RedisMQ works on, for one queue   *)
(* and its consumer group: the stream with the group's pending-entries     *)
(* list, the metadata hash of each message and the status index sets.      *)
(*                                                                         *)
(* A stream entry id is its position in the log; 0 is the empty string the *)
(* publisher stores in the field Id before it knows the id.  A pipeline    *)
(* (StartPipe .. EndPipe) and a MULTI .. EXEC are applied in one step.     *)
(* Statistics counters and index scores are abstracted away.               *)
(***************************************************************************)
EXTENDS Naturals, Sequences, FiniteSets, FiniteSetsExt

CONSTANTS
    Msgs,       \* the messages the application publishes
    Attempts,   \* AutomaticRetryAttempts of the queue's consumer class
    Faults,     \* the kinds of fault that may strike (see FaultKinds)
    MaxFaults   \* BOUND: how many faults may strike in a behaviour

FaultKinds ==
    { "PublishError",   \* a Redis call of the publisher throws
      "PublisherCrash", \* the publishing process dies inside a publish
      "ReadLost",       \* XREADGROUP is executed, its reply never arrives
      "ResolveError",   \* the consumer class cannot be resolved
      "CommitError",    \* a Redis call of a worker throws
      "WorkerCrash",    \* the process of a worker dies
      "TimeoutError",   \* a Redis call of the timeout service throws
      "TimeoutCrash",   \* the process of the timeout service dies
      "CleanupError" }  \* a Redis call of the cleanup throws, or its process dies

ASSUME StoreAssumption ==
    Attempts \in Nat /\ Faults \subseteq FaultKinds /\ MaxFaults \in Nat

VARIABLES
    log,            \* the message of every entry ever XADDed to the stream
    live,           \* the ids XDEL has not deleted
    lastDelivered,  \* the last-delivered-id of the consumer group
    pel,            \* the group's pending entries list, all consumers together
    idle,           \* the pending ids whose idle time has reached the timeout
    hash,           \* the metadata hash of each message
    index,          \* the five status index sets
    published,      \* PublishMessageIdSet
    settled,        \* history: the messages whose outcome was once recorded
    faults          \* how many faults may still strike

streamVars == <<log, live, lastDelivered, pel, idle>>
metaVars   == <<hash, index, published, settled>>

-----------------------------------------------------------------------------

Status == {"Pending", "Processing", "Retrying", "Completed", "Failed"}

\* The fields of a metadata hash.  type is "None" when the hash lacks the
\* fields only the publisher writes (Type and Message).
Hash == [ type   : {"None", "Common"},
          status : Status \union {"None"},
          id     : Nat,
          execs  : Nat,
          err    : BOOLEAN ]

\* No such key in Redis: every HGET answers nil, which the code reads as 0.
NoHash == [type |-> "None", status |-> "None", id |-> 0, execs |-> 0, err |-> FALSE]

InitStore ==
    /\ log = <<>> /\ live = {} /\ lastDelivered = 0 /\ pel = {} /\ idle = {}
    /\ hash = [m \in Msgs |-> NoHash]
    /\ index = [s \in Status |-> {}]
    /\ published = {} /\ settled = {}
    /\ faults = MaxFaults

-----------------------------------------------------------------------------

\* A fault of the given kind strikes, or does not.
Fault(kind) == kind \in Faults /\ faults > 0 /\ faults' = faults - 1
NoFault     == UNCHANGED faults

\* XADD: a new entry at the end of the stream.
XAdd(m) ==
    /\ log' = Append(log, m)
    /\ live' = live \union {Len(log) + 1}
    /\ UNCHANGED <<lastDelivered, pel, idle>>

\* XACK and XDEL of the entries ids, which the code always sends together.
XAckDel(ids) ==
    /\ pel' = pel \ ids
    /\ idle' = idle \ ids
    /\ live' = live \ ids
    /\ UNCHANGED <<log, lastDelivered>>

\* ZREM of the messages ms from the sets "from", ZADD to the set "to".
Reindex(ms, from, to) ==
    index' = [s \in Status |-> CASE s = to     -> index[s] \union ms
                                 [] s \in from -> index[s] \ ms
                                 [] OTHER      -> index[s]]

\* HSET of the field Status (and, for a hash that was missing, its creation).
SetStatus(ms, s) ==
    hash' = [m \in Msgs |-> IF m \in ms THEN [hash[m] EXCEPT !.status = s] ELSE hash[m]]

\* What XREADGROUP with ">" hands out: the first n entries the group has not
\* seen.  Deleted entries are skipped.
Undelivered  == {i \in live : i > lastDelivered}
NextBatch(n) == {i \in Undelivered : Cardinality({j \in Undelivered : j < i}) < n}

\* The entries of a message that are still in the stream.
Carriers(m) == {i \in live : log[i] = m}

-----------------------------------------------------------------------------

StoreTypeOK ==
    /\ log \in Seq(Msgs)
    /\ live \subseteq 1 .. Len(log)
    /\ lastDelivered \in 0 .. Len(log)
    /\ pel \subseteq 1 .. lastDelivered
    /\ idle \subseteq pel
    /\ hash \in [Msgs -> Hash]
    /\ index \in [Status -> SUBSET Msgs]
    /\ published \subseteq Msgs /\ settled \subseteq Msgs
    /\ faults \in 0 .. MaxFaults
=============================================================================
