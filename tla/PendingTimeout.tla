--------------------------- MODULE PendingTimeout ---------------------------
(***************************************************************************)
(* HandlePendingTimeOutService: on every server, a task per queue that     *)
(* takes a Redis lock, pages through the group's pending entries, claims   *)
(* those idle for PendingTimeOut and publishes their messages anew, or     *)
(* gives them up when their attempts are spent.                            *)
(***************************************************************************)
EXTENDS RedisStore

CONSTANTS
    Servers,        \* the servers, each with one such task for the queue
    NoServer,       \* who owns a free lock
    PageSize        \* how many entries one XPENDING returns (100 in the code)

ASSUME TimeoutAssumption == PageSize \in Nat \ {0} /\ NoServer \notin Servers

VARIABLES
    lock,    \* who owns the Redis lock of the queue
    tpc,     \* where the task of each server stands
    cursor,  \* pendingStartId: the next page starts here
    claimed, \* the page: idle ids, then those XCLAIM returned and not yet handled
    tnew     \* newStreamMessageId of the entry in hand

timeoutVars == <<lock, tpc, cursor, claimed, tnew>>

TaskStates == {"lock", "scan", "claim", "entry", "giveup", "republish", "commit", "unlock"}

InitTimeout ==
    /\ lock = NoServer
    /\ tpc = [s \in Servers |-> "lock"]
    /\ cursor = [s \in Servers |-> 0]
    /\ claimed = [s \in Servers |-> {}]
    /\ tnew = [s \in Servers |-> 0]

Entry(s) == CHOOSE i \in claimed[s] : \A j \in claimed[s] : i <= j

TGoto(s, pc) == tpc' = [tpc EXCEPT ![s] = pc]

\* On to the next claimed entry, or to the next page after the last one.
NextClaimed(s) ==
    /\ claimed' = [claimed EXCEPT ![s] = @ \ {Entry(s)}]
    /\ TGoto(s, IF claimed[s] = {Entry(s)} THEN "scan" ELSE "entry")
    /\ tnew' = [tnew EXCEPT ![s] = 0]
    /\ UNCHANGED <<lock, cursor>>

-----------------------------------------------------------------------------

AcquireLock(s) ==
    /\ tpc[s] = "lock" /\ lock = NoServer
    /\ lock' = s
    /\ TGoto(s, "scan")
    /\ NoFault
    /\ UNCHANGED <<streamVars, metaVars, cursor, claimed, tnew>>

\* XPENDING from the cursor on: at most PageSize ids, of which the idle ones
\* are kept.  A page without idle entries moves to the next, an empty page
\* ends the scan.
Page(s) ==
    LET rest == {i \in pel : i >= cursor[s]}
    IN  {i \in rest : Cardinality({j \in rest : j < i}) < PageSize}

\* GetNextStreamId: the smallest id greater than i.
NextStreamId(i) == i + 1

\* Mistake: a page without idle entries ends the scan.
ScanStopsAtBusy(s) ==
    /\ tpc[s] = "scan"
    /\ IF Page(s) \intersect idle = {}
         THEN TGoto(s, "unlock") /\ cursor' = [cursor EXCEPT ![s] = 0] /\ UNCHANGED claimed
         ELSE /\ \E last \in Page(s) :
                    /\ \A i \in Page(s) : i <= last
                    /\ cursor' = [cursor EXCEPT ![s] = NextStreamId(last)]
              /\ claimed' = [claimed EXCEPT ![s] = Page(s) \intersect idle]
              /\ TGoto(s, "claim")
    /\ NoFault
    /\ UNCHANGED <<streamVars, metaVars, lock, tnew>>

ScanPage(s) ==
    /\ tpc[s] = "scan"
    /\ IF Page(s) = {}
         THEN /\ TGoto(s, "unlock")
              /\ cursor' = [cursor EXCEPT ![s] = 0]
              /\ UNCHANGED claimed
         ELSE /\ \E last \in Page(s) :
                    /\ \A i \in Page(s) : i <= last
                    /\ cursor' = [cursor EXCEPT ![s] = NextStreamId(last)]
              /\ claimed' = [claimed EXCEPT ![s] = Page(s) \intersect idle]
              /\ TGoto(s, IF Page(s) \intersect idle = {} THEN "scan" ELSE "claim")
    /\ NoFault
    /\ UNCHANGED <<streamVars, metaVars, lock, tnew>>

\* Mistake: the reply of XCLAIM is taken for non-empty.
ClaimUnchecked(s) ==
    /\ tpc[s] = "claim"
    /\ claimed' = [claimed EXCEPT ![s] = @ \intersect idle]
    /\ idle' = idle \ claimed[s]
    /\ TGoto(s, "entry")
    /\ NoFault
    /\ UNCHANGED <<log, live, lastDelivered, pel, metaVars, lock, cursor, tnew>>

\* XCLAIM with the same minimum idle time: the ids acknowledged or claimed
\* since the scan are not returned, the idle time of the others restarts.
Claim(s) ==
    /\ tpc[s] = "claim"
    /\ LET got == claimed[s] \intersect idle
       IN  /\ claimed' = [claimed EXCEPT ![s] = got]
           /\ idle' = idle \ got
           /\ TGoto(s, IF got = {} THEN "scan" ELSE "entry")
    /\ NoFault
    /\ UNCHANGED <<log, live, lastDelivered, pel, metaVars, lock, cursor, tnew>>

\* HGET ErrorInfo and, if there is one, HGET ExecutionTimes.
Inspect(s) ==
    /\ tpc[s] = "entry"
    /\ LET h == hash[log[Entry(s)]]
       IN  TGoto(s, IF h.err /\ h.execs > Attempts THEN "giveup" ELSE "republish")
    /\ NoFault
    /\ UNCHANGED <<streamVars, metaVars, lock, cursor, claimed, tnew>>

\* The pipeline of a message whose attempts are spent.
FailCommit(s) ==
    /\ tpc[s] = "giveup"
    /\ XAckDel({Entry(s)})
    /\ SetStatus({log[Entry(s)]}, "Failed")
    /\ Reindex({log[Entry(s)]}, {"Pending", "Processing", "Retrying", "Completed"}, "Failed")
    /\ settled' = settled \union {log[Entry(s)]}
    /\ NextClaimed(s)
    /\ NoFault
    /\ UNCHANGED published

\* Mistake: the entry is deleted, and the XADD is left out.
RepublishLost(s) ==
    /\ tpc[s] = "republish"
    /\ XAckDel({Entry(s)})
    /\ TGoto(s, "commit")
    /\ NoFault
    /\ UNCHANGED <<metaVars, lock, cursor, claimed, tnew>>

\* The message is published anew, as an entry of its own ...
Republish(s) ==
    /\ tpc[s] = "republish"
    /\ XAdd(log[Entry(s)])
    /\ tnew' = [tnew EXCEPT ![s] = Len(log) + 1]
    /\ TGoto(s, "commit")
    /\ NoFault
    /\ UNCHANGED <<metaVars, lock, cursor, claimed>>

\* Mistake: the message stays in the index set Failed.
RepublishKeepsFailed(s) ==
    /\ tpc[s] = "commit"
    /\ XAckDel({Entry(s)})
    /\ hash' = [hash EXCEPT ![log[Entry(s)]].id = tnew[s],
                            ![log[Entry(s)]].status = "Pending"]
    /\ Reindex({log[Entry(s)]}, {"Processing", "Retrying", "Completed"}, "Pending")
    /\ NextClaimed(s)
    /\ NoFault
    /\ UNCHANGED <<published, settled>>

\* Mistake: the old entry is neither acknowledged nor deleted.
RepublishKeepsEntry(s) ==
    /\ tpc[s] = "commit"
    /\ hash' = [hash EXCEPT ![log[Entry(s)]].id = tnew[s],
                            ![log[Entry(s)]].status = "Pending"]
    /\ Reindex({log[Entry(s)]}, {"Processing", "Retrying", "Failed", "Completed"}, "Pending")
    /\ NextClaimed(s)
    /\ NoFault
    /\ UNCHANGED <<streamVars, published, settled>>

\* ... and then the old entry leaves the stream.
RepublishCommit(s) ==
    /\ tpc[s] = "commit"
    /\ XAckDel({Entry(s)})
    /\ hash' = [hash EXCEPT ![log[Entry(s)]].id = tnew[s],
                            ![log[Entry(s)]].status = "Pending"]
    /\ Reindex({log[Entry(s)]}, {"Processing", "Retrying", "Failed", "Completed"}, "Pending")
    /\ NextClaimed(s)
    /\ NoFault
    /\ UNCHANGED <<published, settled>>

\* finally: the lock is released if it is still this server's.
Unlock(s) ==
    /\ tpc[s] = "unlock"
    /\ lock' = IF lock = s THEN NoServer ELSE lock
    /\ TGoto(s, "lock")
    /\ NoFault
    /\ UNCHANGED <<streamVars, metaVars, cursor, claimed, tnew>>

-----------------------------------------------------------------------------

\* What the task keeps of a scan when it ends half way.
Drop(s) ==
    /\ cursor' = [cursor EXCEPT ![s] = 0]
    /\ claimed' = [claimed EXCEPT ![s] = {}]
    /\ tnew' = [tnew EXCEPT ![s] = 0]
    /\ UNCHANGED <<streamVars, metaVars, lock>>

\* A Redis call throws: the rest of the page is dropped.  (If Redis executed
\* the call, its step was taken and the error strikes in the next state.)
TimeoutError(s) ==
    /\ tpc[s] \in {"scan", "claim", "entry", "giveup", "republish", "commit"}
    /\ Fault("TimeoutError")
    /\ TGoto(s, "unlock")
    /\ Drop(s)

\* The process dies, and is started again; the lock stays until it expires.
TimeoutCrash(s) ==
    /\ tpc[s] # "lock"
    /\ Fault("TimeoutCrash")
    /\ TGoto(s, "lock")
    /\ Drop(s)

TimeoutStep(s) ==
    \/ AcquireLock(s) \/ ScanPage(s) \/ Claim(s) \/ Inspect(s) \/ FailCommit(s)
    \/ Republish(s) \/ RepublishCommit(s) \/ Unlock(s)

TimeoutFault(s) == TimeoutError(s) \/ TimeoutCrash(s)

TimeoutTypeOK ==
    /\ lock \in Servers \union {NoServer}
    /\ tpc \in [Servers -> TaskStates]
    /\ cursor \in [Servers -> Nat]
    /\ claimed \in [Servers -> SUBSET (1 .. lastDelivered)]
    /\ tnew \in [Servers -> 0 .. Len(log)]
    /\ \A s \in Servers : tpc[s] \in {"claim", "entry", "giveup", "republish", "commit"}
                             => claimed[s] # {}
=============================================================================
