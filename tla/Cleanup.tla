------------------------------ MODULE Cleanup ------------------------------
(***************************************************************************)
(* MessageCleanupBackgroundService: once a minute the server that gets the *)
(* cleanup lock trims the Completed and the Failed messages to a maximum,  *)
(* and looks at messages that have been Pending for long: those whose      *)
(* entry is gone become Failed, those in the wrong index set are moved.    *)
(*                                                                         *)
(* The lock leaves one round of cleanup at a time; FreeRedis renews it     *)
(* while the round runs.  The message type Delay is DelayQueue's.          *)
(***************************************************************************)
EXTENDS RedisStore, Integers

CONSTANTS
    CompletedMax,   \* CompletedMessageMaxLength; negative: keep all
    FailedMax,      \* FailedMessageMaxLength; negative: keep all
    CheckOrphans,   \* whether PendingMessageOrphanTimeout is not negative
    BatchSize       \* 500 in the code

ASSUME CleanupAssumption ==
    /\ CompletedMax \in Int /\ FailedMax \in Int
    /\ CheckOrphans \in BOOLEAN /\ BatchSize \in Nat \ {0}

VARIABLES
    cpc,        \* where the round of cleanup stands
    trimming,   \* the status whose set it is trimming
    excess,     \* removeCount
    ids,        \* messageIds: the messages it has listed
    orphan,     \* the message whose hash it has read, as a set of one
    snap,       \* messageData: that hash
    aged        \* the messages Pending for longer than the orphan timeout

cleanupVars == <<cpc, trimming, excess, ids, orphan, snap>>

CleanupStates ==
    {"idle", "count", "list", "erase", "orphans", "read", "drop", "move", "check", "fail"}

InitCleanup ==
    /\ cpc = "idle" /\ trimming = "Completed" /\ excess = 0
    /\ ids = {} /\ orphan = {} /\ snap = NoHash /\ aged = {}

MaxLength(s) == IF s = "Completed" THEN CompletedMax ELSE FailedMax

Least(a, b) == IF a < b THEN a ELSE b

-----------------------------------------------------------------------------
(* CleanupStatus, for Completed and then for Failed *)

BeginCleanup ==
    /\ cpc = "idle"
    /\ cpc' = "count" /\ trimming' = "Completed"
    /\ NoFault
    /\ UNCHANGED <<streamVars, metaVars, excess, ids, orphan, snap>>

\* The set is trimmed: on to the Failed ones, then to the orphans.
NextStatus ==
    IF trimming = "Completed"
      THEN cpc' = "count" /\ trimming' = "Failed"
      ELSE cpc' = "orphans" /\ UNCHANGED trimming

\* ZCARD.  The number to remove is computed once.
Count ==
    /\ cpc = "count"
    /\ excess' = Cardinality(index[trimming]) - MaxLength(trimming)
    /\ IF MaxLength(trimming) < 0 \/ excess' <= 0
         THEN NextStatus
         ELSE cpc' = "list" /\ UNCHANGED trimming
    /\ NoFault
    /\ UNCHANGED <<streamVars, metaVars, ids, orphan, snap>>

\* ZRANGE of the oldest ones; which ones these are is left open.
List ==
    /\ cpc = "list"
    /\ LET n == Least(Least(excess, BatchSize), Cardinality(index[trimming]))
       IN  IF n = 0
             THEN NextStatus /\ UNCHANGED ids
             ELSE /\ ids' \in {ms \in SUBSET index[trimming] : Cardinality(ms) = n}
                  /\ cpc' = "erase" /\ UNCHANGED trimming
    /\ NoFault
    /\ UNCHANGED <<streamVars, metaVars, excess, orphan, snap>>

\* Mistake: the ids stay in the status set.
EraseKeepsIndex ==
    /\ cpc = "erase"
    /\ published' = published \ ids
    /\ hash' = [m \in Msgs |-> IF m \in ids THEN NoHash ELSE hash[m]]
    /\ excess' = excess - Cardinality(ids)
    /\ ids' = {}
    /\ IF excess' > 0 THEN cpc' = "list" /\ UNCHANGED trimming ELSE NextStatus
    /\ NoFault
    /\ UNCHANGED <<streamVars, index, settled, orphan, snap>>

\* The pipeline: whatever the messages have become, their hashes are deleted.
Erase ==
    /\ cpc = "erase"
    /\ published' = published \ ids
    /\ index' = [index EXCEPT ![trimming] = @ \ ids]
    /\ hash' = [m \in Msgs |-> IF m \in ids THEN NoHash ELSE hash[m]]
    /\ excess' = excess - Cardinality(ids)
    /\ ids' = {}
    /\ IF excess' > 0 THEN cpc' = "list" /\ UNCHANGED trimming ELSE NextStatus
    /\ NoFault
    /\ UNCHANGED <<streamVars, settled, orphan, snap>>

-----------------------------------------------------------------------------
(* CleanupPendingOrphans *)

\* ZRANGEBYSCORE of the messages that have been Pending for long.
ListOrphans ==
    /\ cpc = "orphans"
    /\ LET old == index["Pending"] \intersect aged
       IN  IF CheckOrphans
             THEN ids' \in {ms \in SUBSET old :
                              Cardinality(ms) = Least(BatchSize, Cardinality(old))}
             ELSE ids' = {}
    /\ cpc' = "read"
    /\ NoFault
    /\ UNCHANGED <<streamVars, metaVars, trimming, excess, orphan, snap>>

\* What the hash that was read says of the message.
Verdict(h) ==
    CASE h = NoHash                                   -> "drop"
      [] h # NoHash /\ h.status \in Status \ {"Pending"} -> "move"
      [] h # NoHash /\ h.status = "None"              -> "drop"
      [] h.status = "Pending" /\ h.id = 0             -> "fail"
      [] h.status = "Pending" /\ h.id # 0             ->
            IF h.type = "None" THEN "read" ELSE "check"

\* HGETALL of the next message; after the last one the lock is released.
ReadOrphan ==
    /\ cpc = "read" /\ ids # {}
    /\ \E m \in ids :
          /\ ids' = ids \ {m}
          /\ orphan' = {m}
          /\ snap' = hash[m]
          /\ cpc' = Verdict(hash[m])
    /\ NoFault
    /\ UNCHANGED <<streamVars, metaVars, trimming, excess>>

EndCleanup ==
    /\ cpc = "read" /\ ids = {}
    /\ cpc' = "idle" /\ orphan' = {} /\ snap' = NoHash
    /\ NoFault
    /\ UNCHANGED <<streamVars, metaVars, trimming, excess, ids>>

\* On to the next message.
NextOrphan == cpc' = "read" /\ UNCHANGED <<trimming, excess, ids, orphan, snap>>

\* There is no hash, or no status in it: ZREM from Pending.
DropOrphan ==
    /\ cpc = "drop"
    /\ index' = [index EXCEPT !["Pending"] = @ \ orphan]
    /\ NextOrphan
    /\ NoFault
    /\ UNCHANGED <<streamVars, hash, published, settled>>

\* Mistake: the message is removed from Pending only.
MoveFromPending ==
    /\ cpc = "move"
    /\ Reindex(orphan, {"Pending"}, snap.status)
    /\ NextOrphan
    /\ NoFault
    /\ UNCHANGED <<streamVars, hash, published, settled>>

\* MoveToStatusSet, with the status that was read.
MoveOrphan ==
    /\ cpc = "move"
    /\ Reindex(orphan, Status, snap.status)
    /\ NextOrphan
    /\ NoFault
    /\ UNCHANGED <<streamVars, hash, published, settled>>

\* Mistake: it is asked whether the id was ever given out.
CheckIdOnly ==
    /\ cpc = "check"
    /\ cpc' = IF snap.id \in 1 .. Len(log) THEN "read" ELSE "fail"
    /\ NoFault
    /\ UNCHANGED <<streamVars, metaVars, trimming, excess, ids, orphan, snap>>

\* XRANGE of the entry id that was read.
CheckEntry ==
    /\ cpc = "check"
    /\ cpc' = IF snap.id \in live THEN "read" ELSE "fail"
    /\ NoFault
    /\ UNCHANGED <<streamVars, metaVars, trimming, excess, ids, orphan, snap>>

\* MarkPendingOrphanAsFailed.
FailOrphan ==
    /\ cpc = "fail"
    /\ hash' = [m \in Msgs |-> IF m \in orphan
                                 THEN [hash[m] EXCEPT !.status = "Failed", !.err = TRUE]
                                 ELSE hash[m]]
    /\ Reindex(orphan, {"Pending", "Processing", "Retrying", "Completed"}, "Failed")
    /\ NextOrphan
    /\ NoFault
    /\ UNCHANGED <<streamVars, published, settled>>

-----------------------------------------------------------------------------

\* A Redis call throws, or the process dies; the lock is released, or expires.
CleanupError ==
    /\ cpc # "idle"
    /\ Fault("CleanupError")
    /\ cpc' = "idle" /\ ids' = {} /\ orphan' = {} /\ snap' = NoHash
    /\ UNCHANGED <<streamVars, metaVars, trimming, excess>>

CleanupStep ==
    \/ BeginCleanup \/ Count \/ List \/ Erase \/ ListOrphans \/ ReadOrphan
    \/ DropOrphan \/ MoveOrphan \/ CheckEntry \/ FailOrphan \/ EndCleanup

CleanupTypeOK ==
    /\ cpc \in CleanupStates /\ trimming \in {"Completed", "Failed"} /\ excess \in Int
    /\ ids \subseteq Msgs /\ orphan \subseteq Msgs /\ snap \in Hash /\ aged \subseteq Msgs
    /\ cpc \in {"drop", "move", "check", "fail"} => orphan # {}
=============================================================================
